---- MODULE Spec2Model ----
(***************************************************************************)
(* Model of the circuit editor's operation-tree mutation engine            *)
(* (circuit_vis/src/events.ts, class CircuitEvents).                       *)
(*                                                                         *)
(* A JavaScript object is modelled by a record that carries its address   *)
(* in the field uid; an array is identified by the uid of the operation   *)
(* that owns it (ROOT for this.operations).  An optional field is <<>>    *)
(* when it is undefined and <<v>> when it holds v.  A location string is  *)
(* the sequence of its characters.                                        *)
(***************************************************************************)
EXTENDS Integers, Sequences, FiniteSets, TLC

VARIABLES operations, wireData, nextUid, pc, last, shift,
          selectedOperation, selectedLocation, selectedWire, event, clock,
          conversion, defaultGateDictionary, bindings, removed

\* the fields of a CircuitEvents object that the event handlers assign
selection == <<selectedOperation, selectedLocation, selectedWire>>

vars == <<operations, wireData, nextUid, pc, last, shift, selection, event, clock,
          conversion, defaultGateDictionary, bindings, removed>>

(***************************************************************************)
(* Bounds of the model.                                                    *)
(***************************************************************************)
MaxIndex == 2
MaxPathLen == 2
MaxOffset == 5
MaxWires == 4
MaxEvents == 3
MaxNumber == 17
MaxBits == 5
MaxAdds == 2
MaxBindings == 2
MaxKeyEvents == 4

(***************************************************************************)
(* JavaScript values.                                                      *)
(***************************************************************************)
ROOT == 0
NaN == -1
NotFoundIndex == -1

None == <<>>
Some(v) == <<v>>
IsSome(o) == o # <<>>
Get(o) == o[1]

\* Register: { type, qId, cId? }
Reg(q) == [type |-> 0, qId |-> q, cId |-> None]
RegC(q, c) == [type |-> 1, qId |-> q, cId |-> Some(c)]

\* Operation: { gate, targets, controls?, children?, dataAttributes? }
Op(g, t, c, ch) ==
    [gate |-> g, targets |-> t, controls |-> c, children |-> ch,
     dataAttributes |-> None, uid |-> 0]

Min(a, b) == IF a < b THEN a ELSE b

(***************************************************************************)
(* Tree walks.                                                             *)
(***************************************************************************)
RECURSIVE Size(_)
Size(arr) ==
    IF arr = <<>> THEN 0
    ELSE 1 + (IF IsSome(Head(arr).children) THEN Size(Get(Head(arr).children)) ELSE 0)
           + Size(Tail(arr))

\* every operation object of the tree, at every depth
RECURSIVE Nodes(_)
Nodes(arr) ==
    IF arr = <<>> THEN {}
    ELSE {Head(arr)}
         \cup (IF IsSome(Head(arr).children) THEN Nodes(Get(Head(arr).children)) ELSE {})
         \cup Nodes(Tail(arr))

Uids(arr) == {n.uid : n \in Nodes(arr)}

\* the operation object at address u, if the tree holds it: <<>> or <<operation>>
RECURSIVE Lookup(_, _)
Lookup(arr, u) ==
    IF arr = <<>> THEN <<>>
    ELSE IF Head(arr).uid = u THEN <<Head(arr)>>
    ELSE LET below == IF IsSome(Head(arr).children)
                      THEN Lookup(Get(Head(arr).children), u)
                      ELSE <<>>
         IN  IF below # <<>> THEN below ELSE Lookup(Tail(arr), u)

HasUid(arr, u) == Lookup(arr, u) # <<>>

NodeByUid(arr, u) == Lookup(arr, u)[1]

\* the array owned by the operation at address owner (ROOT: the top-level array)
ArrayOf(arr, owner) ==
    IF owner = ROOT THEN arr ELSE Get(NodeByUid(arr, owner).children)

\* the tree with the operation object at address u holding the value new
RECURSIVE ReplaceNode(_, _, _)
ReplaceNode(arr, u, new) ==
    [i \in 1..Len(arr) |->
        IF arr[i].uid = u THEN new
        ELSE IF IsSome(arr[i].children)
             THEN [arr[i] EXCEPT !.children = Some(ReplaceNode(Get(arr[i].children), u, new))]
             ELSE arr[i]]

\* the tree with the array owned by owner holding the value new
ReplaceArray(arr, owner, new) ==
    IF owner = ROOT THEN new
    ELSE IF HasUid(arr, owner)
         THEN ReplaceNode(arr, owner, [NodeByUid(arr, owner) EXCEPT !.children = Some(new)])
         ELSE arr

\* structural value (what lodash isEqual and JSON.stringify see): no addresses
RECURSIVE Strip(_)
StripNode(n) ==
    [n EXCEPT !.uid = 0,
              !.children = IF IsSome(@) THEN Some(Strip(Get(@))) ELSE None]
Strip(arr) == [i \in 1..Len(arr) |-> StripNode(arr[i])]

\* fresh objects for a value: addresses base, base+1, ... in preorder
RECURSIVE Alloc(_, _)
AllocNode(n, base) ==
    [n EXCEPT !.uid = base,
              !.children = IF IsSome(@) THEN Some(Alloc(Get(@), base + 1)) ELSE None]
Alloc(arr, base) ==
    IF arr = <<>> THEN <<>>
    ELSE <<AllocNode(Head(arr), base)>> \o Alloc(Tail(arr), base + Size(<<Head(arr)>>))

\* mutants of JsonClone: a copy that leaves the children out; no copy at all
ShallowClone(n, base) ==
    [n EXCEPT !.uid = base, !.children = IF IsSome(@) THEN Some(<<>>) ELSE None]
SameObject(n, base) == n

\* JSON.parse(JSON.stringify(operation)): a deep copy made of new objects
JsonClone(n, base) == AllocNode(n, base)

(***************************************************************************)
(* Array.prototype.splice and findIndex.                                   *)
(***************************************************************************)
\* mutant of SpliceInsert: the item goes after the element at start
SpliceInsertAfter(arr, start, item) ==
    LET s == IF start = NaN THEN 0 ELSE Min(start + 1, Len(arr))
    IN  SubSeq(arr, 1, s) \o <<item>> \o SubSeq(arr, s + 1, Len(arr))

\* arr.splice(start, 0, item): NaN counts as 0, a start past the end appends
SpliceInsert(arr, start, item) ==
    LET s == IF start = NaN THEN 0 ELSE Min(start, Len(arr))
    IN  SubSeq(arr, 1, s) \o <<item>> \o SubSeq(arr, s + 1, Len(arr))

\* mutant of SpliceDelete: arr.splice(start), which deletes to the end
SpliceDeleteToEnd(arr, start) ==
    LET s == IF start < 0 THEN (IF Len(arr) + start < 0 THEN 0 ELSE Len(arr) + start)
             ELSE Min(start, Len(arr))
    IN  SubSeq(arr, 1, s)

\* arr.splice(start, 1): a negative start counts from the end
SpliceDelete(arr, start) ==
    LET s == IF start < 0 THEN (IF Len(arr) + start < 0 THEN 0 ELSE Len(arr) + start)
             ELSE Min(start, Len(arr))
    IN  SubSeq(arr, 1, s) \o SubSeq(arr, s + 2, Len(arr))

IsRemoved(operation) ==
    IsSome(operation.dataAttributes) /\ "removed" \in Get(operation.dataAttributes)

\* mutant of FindIndexRemoved: the index of the last element, marked or not
FindIndexOfLast(arr) == Len(arr) - 1

\* arr.findIndex(operation => operation.dataAttributes && operation.dataAttributes['removed'])
FindIndexRemoved(arr) ==
    IF \E i \in 1..Len(arr) : IsRemoved(arr[i])
    THEN (CHOOSE i \in 1..Len(arr) :
             IsRemoved(arr[i]) /\ \A j \in 1..(i - 1) : ~IsRemoved(arr[j])) - 1
    ELSE NotFoundIndex

(***************************************************************************)
(* Locations: "0-1-2".                                                     *)
(***************************************************************************)
DigitChars == <<"0", "1", "2", "3", "4", "5", "6", "7", "8", "9">>

DigitValue(c) == (CHOOSE d \in 1..10 : DigitChars[d] = c) - 1

RECURSIVE ParseDigits(_, _)
ParseDigits(seg, acc) ==
    IF seg = <<>> THEN acc
    ELSE ParseDigits(Tail(seg), 10 * acc + DigitValue(Head(seg)))

\* parseInt of a segment made of digits; NaN for the empty segment
ParseInt(seg) == IF seg = <<>> THEN NaN ELSE ParseDigits(seg, 0)

\* location.split('-')
RECURSIVE SplitDash(_)
SplitDash(s) ==
    IF s = <<>> THEN << <<>> >>
    ELSE IF Head(s) = "-" THEN << <<>> >> \o SplitDash(Tail(s))
    ELSE LET r == SplitDash(Tail(s))
         IN  << <<Head(s)>> \o Head(r) >> \o Tail(r)

_indexes(location) ==
    IF location # <<>>
    THEN LET segs == SplitDash(location)
         IN  [i \in 1..Len(segs) |-> ParseInt(segs[i])]
    ELSE <<>>

Pop(s) == SubSeq(s, 1, Len(s) - 1)

\* mutant of _lastIndex: the first index of the location in place of the last
FirstIndex(location) ==
    LET ix == _indexes(location)
    IN  IF ix = <<>> THEN None ELSE Some(ix[1])

\* _indexes(location).pop(): undefined (None) for the empty array
_lastIndex(location) ==
    LET ix == _indexes(location)
    IN  IF ix = <<>> THEN None ELSE Some(ix[Len(ix)])


NullLocation == <<"null">>

\* !location: null and the empty string are falsy
Falsy(location) == location = NullLocation \/ location = <<>>

(***************************************************************************)
(* Finder functions.  A result is a record: kind says which JavaScript     *)
(* value came back ("null", "undefined", "array", "operation") or that the *)
(* call threw a TypeError ("throw"); uid is the address of the object.     *)
(***************************************************************************)
Result(k, u) == [kind |-> k, uid |-> u]

IsNullish(r) == r.kind \in {"null", "undefined"}

\* arr[index]: undefined when index is NaN or past the end
InRange(arr, index) == index # NaN /\ index < Len(arr)

\* mutant of Walk: parentArray = parentArray[index].children, without the fallback
RECURSIVE WalkWithoutFallback(_, _, _)
WalkWithoutFallback(ops, owner, indexes) ==
    IF indexes = <<>> THEN Result("array", owner)
    ELSE LET arr == ArrayOf(ops, owner)
             index == Head(indexes)
         IN  IF ~InRange(arr, index) THEN Result("throw", 0)
             ELSE IF ~IsSome(arr[index + 1].children) THEN Result("undefined", 0)
             ELSE WalkWithoutFallback(ops, arr[index + 1].uid, Tail(indexes))

\* for (const index of indexes) parentArray = parentArray[index].children || parentArray
RECURSIVE Walk(_, _, _)
Walk(ops, owner, indexes) ==
    IF indexes = <<>> THEN Result("array", owner)
    ELSE LET arr == ArrayOf(ops, owner)
             index == Head(indexes)
         IN  IF ~InRange(arr, index) THEN Result("throw", 0)
             ELSE Walk(ops,
                       IF IsSome(arr[index + 1].children) THEN arr[index + 1].uid ELSE owner,
                       Tail(indexes))

_findParentArray(ops, location) ==
    IF Falsy(location) THEN Result("null", 0)
    ELSE Walk(ops, ROOT, Pop(_indexes(location)))

_findOperation(ops, location) ==
    IF Falsy(location) THEN Result("null", 0)
    ELSE LET index == _lastIndex(location)
             operationParent == _findParentArray(ops, location)
         IN  IF operationParent.kind = "throw" THEN operationParent
             ELSE IF IsNullish(operationParent) \/ ~IsSome(index) THEN Result("null", 0)
             ELSE LET arr == ArrayOf(ops, operationParent.uid)
                  IN  IF InRange(arr, Get(index))
                      THEN Result("operation", arr[Get(index) + 1].uid)
                      ELSE Result("undefined", 0)

_findParentOperation(ops, location) ==
    IF Falsy(location) THEN Result("null", 0)
    ELSE LET popped == Pop(_indexes(location))
         IN  IF popped = <<>> THEN Result("null", 0)
             ELSE LET lastIndex == popped[Len(popped)]
                      parentOperation == Walk(ops, ROOT, Pop(popped))
                  IN  IF parentOperation.kind = "throw" THEN parentOperation
                      ELSE LET arr == ArrayOf(ops, parentOperation.uid)
                           IN  IF InRange(arr, lastIndex)
                               THEN Result("operation", arr[lastIndex + 1].uid)
                               ELSE Result("undefined", 0)

(***************************************************************************)
(* Circuit manipulation.  An outcome is the state the call leaves:         *)
(* the tree, what was returned (ret and, for an operation, its address     *)
(* uid), and the next free address.                                        *)
(***************************************************************************)
Outcome(ops, k, u, next) == [operations |-> ops, ret |-> k, uid |-> u, nextUid |-> next]

\* dataAttributes === undefined ? { removed: 'true' } : dataAttributes['removed'] = 'true'
MarkRemoved(operation) ==
    [operation EXCEPT !.dataAttributes =
        IF IsSome(@) THEN Some(Get(@) \cup {"removed"}) ELSE Some({"removed"})]

\* mutant of DeleteMarked: the source is never marked, so findIndex finds nothing
DeleteUnmarked(ops, sourceUid, parentOwner) ==
    LET parent == ArrayOf(ops, parentOwner)
    IN  ReplaceArray(ops, parentOwner, SpliceDelete(parent, FindIndexRemoved(parent)))

\* the source is marked, looked up by its mark in its parent array, and spliced out
DeleteMarked(ops, sourceUid, parentOwner) ==
    LET marked == IF HasUid(ops, sourceUid)
                  THEN ReplaceNode(ops, sourceUid, MarkRemoved(NodeByUid(ops, sourceUid)))
                  ELSE ops
        parent == ArrayOf(marked, parentOwner)
        indexToRemove == FindIndexRemoved(parent)
    IN  ReplaceArray(marked, parentOwner, SpliceDelete(parent, indexToRemove))

\* mutant of InsertClone: targetOperationParent.push(newSourceOperation)
InsertCloneAtEnd(ops, targetOwner, targetLastIndex, newSourceOperation) ==
    ReplaceArray(ops, targetOwner, Append(ArrayOf(ops, targetOwner), newSourceOperation))

\* targetOperationParent.splice(targetLastIndex, 0, newSourceOperation)
InsertClone(ops, targetOwner, targetLastIndex, newSourceOperation) ==
    ReplaceArray(ops, targetOwner,
                 SpliceInsert(ArrayOf(ops, targetOwner), targetLastIndex, newSourceOperation))

_removeOperation(ops, next, sourceLocation) ==
    LET sourceOperation == _findOperation(ops, sourceLocation)
        sourceOperationParent == _findParentArray(ops, sourceLocation)
    IN  IF sourceOperation.kind = "throw" \/ sourceOperationParent.kind = "throw"
        THEN Outcome(ops, "throw", 0, next)
        ELSE IF IsNullish(sourceOperation) \/ IsNullish(sourceOperationParent)
        THEN Outcome(ops, "null", 0, next)
        ELSE Outcome(DeleteMarked(ops, sourceOperation.uid, sourceOperationParent.uid),
                     "undefined", 0, next)

\* mutant of _moveX: the source is spliced out before the clone is spliced in
MoveXDeleteFirst(ops, next, sourceLocation, targetLocation) ==
    LET sourceOperation == _findOperation(ops, sourceLocation)
        sourceOperationParent == _findParentArray(ops, sourceLocation)
        targetOperationParent == _findParentArray(ops, targetLocation)
        targetLastIndex == _lastIndex(targetLocation)
    IN  IF sourceOperation.kind = "throw" THEN Outcome(ops, "throw", 0, next)
        ELSE IF sourceLocation = targetLocation
        THEN Outcome(ops, sourceOperation.kind, sourceOperation.uid, next)
        ELSE IF sourceOperationParent.kind = "throw" \/ targetOperationParent.kind = "throw"
        THEN Outcome(ops, "throw", 0, next)
        ELSE IF \/ IsNullish(targetOperationParent)
                \/ ~IsSome(targetLastIndex)
                \/ IsNullish(sourceOperation)
                \/ IsNullish(sourceOperationParent)
        THEN Outcome(ops, "null", 0, next)
        ELSE LET newSourceOperation == JsonClone(NodeByUid(ops, sourceOperation.uid), next)
                 deleted == DeleteMarked(ops, sourceOperation.uid, sourceOperationParent.uid)
             IN  Outcome(IF targetOperationParent.uid = ROOT
                            \/ HasUid(deleted, targetOperationParent.uid)
                         THEN InsertClone(deleted, targetOperationParent.uid,
                                          Get(targetLastIndex), newSourceOperation)
                         ELSE deleted,
                         "operation", newSourceOperation.uid,
                         next + Size(<<newSourceOperation>>))

\* mutant of _moveX: the source is spliced out at the index its location gave,
\* not looked up by its mark
MoveXByIndex(ops, next, sourceLocation, targetLocation) ==
    LET sourceOperation == _findOperation(ops, sourceLocation)
        sourceOperationParent == _findParentArray(ops, sourceLocation)
        targetOperationParent == _findParentArray(ops, targetLocation)
        targetLastIndex == _lastIndex(targetLocation)
    IN  IF sourceOperation.kind = "throw" THEN Outcome(ops, "throw", 0, next)
        ELSE IF sourceLocation = targetLocation
        THEN Outcome(ops, sourceOperation.kind, sourceOperation.uid, next)
        ELSE IF sourceOperationParent.kind = "throw" \/ targetOperationParent.kind = "throw"
        THEN Outcome(ops, "throw", 0, next)
        ELSE IF \/ IsNullish(targetOperationParent)
                \/ ~IsSome(targetLastIndex)
                \/ IsNullish(sourceOperation)
                \/ IsNullish(sourceOperationParent)
        THEN Outcome(ops, "null", 0, next)
        ELSE LET newSourceOperation == JsonClone(NodeByUid(ops, sourceOperation.uid), next)
                 inserted == InsertClone(ops, targetOperationParent.uid,
                                         Get(targetLastIndex), newSourceOperation)
                 parent == ArrayOf(inserted, sourceOperationParent.uid)
             IN  Outcome(ReplaceArray(inserted, sourceOperationParent.uid,
                                      SpliceDelete(parent, Get(_lastIndex(sourceLocation)))),
                         "operation", newSourceOperation.uid, next + Size(<<newSourceOperation>>))

_moveX(ops, next, sourceLocation, targetLocation) ==
    LET sourceOperation == _findOperation(ops, sourceLocation)
        sourceOperationParent == _findParentArray(ops, sourceLocation)
        targetOperationParent == _findParentArray(ops, targetLocation)
        targetLastIndex == _lastIndex(targetLocation)
    IN  IF sourceOperation.kind = "throw" THEN Outcome(ops, "throw", 0, next)
        ELSE IF sourceLocation = targetLocation
        THEN Outcome(ops, sourceOperation.kind, sourceOperation.uid, next)
        ELSE IF sourceOperationParent.kind = "throw" \/ targetOperationParent.kind = "throw"
        THEN Outcome(ops, "throw", 0, next)
        ELSE IF \/ IsNullish(targetOperationParent)
                \/ ~IsSome(targetLastIndex)
                \/ IsNullish(sourceOperation)
                \/ IsNullish(sourceOperationParent)
        THEN Outcome(ops, "null", 0, next)
        ELSE LET newSourceOperation == JsonClone(NodeByUid(ops, sourceOperation.uid), next)
                 inserted == InsertClone(ops, targetOperationParent.uid,
                                         Get(targetLastIndex), newSourceOperation)
             IN  Outcome(DeleteMarked(inserted, sourceOperation.uid, sourceOperationParent.uid),
                         "operation", newSourceOperation.uid, next + Size(<<newSourceOperation>>))

_copyX(ops, next, sourceLocation, targetLocation) ==
    LET sourceOperation == _findOperation(ops, sourceLocation)
        targetOperationParent == _findParentArray(ops, targetLocation)
        targetLastIndex == _lastIndex(targetLocation)
    IN  IF sourceOperation.kind = "throw" \/ targetOperationParent.kind = "throw"
        THEN Outcome(ops, "throw", 0, next)
        ELSE IF \/ IsNullish(targetOperationParent)
                \/ ~IsSome(targetLastIndex)
                \/ IsNullish(sourceOperation)
        THEN Outcome(ops, "null", 0, next)
        ELSE LET newSourceOperation == JsonClone(NodeByUid(ops, sourceOperation.uid), next)
             IN  Outcome(InsertClone(ops, targetOperationParent.uid,
                                     Get(targetLastIndex), newSourceOperation),
                         "operation", newSourceOperation.uid, next + Size(<<newSourceOperation>>))

\* mutant of _addOperation: sourceOperation itself is spliced in, without the
\* JSON round trip
AddSourceItself(ops, next, sourceOperation, targetLocation) ==
    LET targetOperationParent == _findParentArray(ops, targetLocation)
        targetLastIndex == _lastIndex(targetLocation)
    IN  IF targetOperationParent.kind = "throw" THEN Outcome(ops, "throw", 0, next)
        ELSE IF IsNullish(targetOperationParent) \/ ~IsSome(targetLastIndex)
        THEN Outcome(ops, "null", 0, next)
        ELSE Outcome(InsertClone(ops, targetOperationParent.uid,
                                 Get(targetLastIndex), sourceOperation),
                     "operation", sourceOperation.uid, next)

\* sourceOperation is an operation value (a toolbox entry), never null here
_addOperation(ops, next, sourceOperation, targetLocation) ==
    LET targetOperationParent == _findParentArray(ops, targetLocation)
        targetLastIndex == _lastIndex(targetLocation)
    IN  IF targetOperationParent.kind = "throw" THEN Outcome(ops, "throw", 0, next)
        ELSE IF IsNullish(targetOperationParent) \/ ~IsSome(targetLastIndex)
        THEN Outcome(ops, "null", 0, next)
        ELSE LET newSourceOperation == JsonClone(sourceOperation, next)
             IN  Outcome(InsertClone(ops, targetOperationParent.uid,
                                     Get(targetLastIndex), newSourceOperation),
                         "operation", newSourceOperation.uid, next + Size(<<newSourceOperation>>))

(***************************************************************************)
(* Wires.                                                                  *)
(***************************************************************************)
\* JavaScript's %: the remainder has the sign of the dividend
JsRem(a, n) == IF a >= 0 THEN a % n ELSE -((-a) % n)

\* mutant of _circularMod: the truncating remainder alone
TruncatingMod(value, offset, total) == JsRem(value + offset, total)

_circularMod(value, offset, total) == JsRem(JsRem(value + offset, total) + total, total)

\* if (target.cId) ...: undefined and 0 are falsy
Truthy(cId) == IsSome(cId) /\ Get(cId) # 0

\* mutant of OffsetTarget: a sum past the last wire stays on the last wire,
\* one before the first wire on the first
OffsetTargetClamped(target, wireOffset, totalWires) ==
    LET sum == target.qId + wireOffset
    IN  [target EXCEPT !.qId = IF sum < 0 THEN 0
                               ELSE IF sum >= totalWires THEN totalWires - 1
                               ELSE sum]

\* mutant of OffsetTarget: the offset is added and the sum is not wrapped
OffsetTargetUnwrapped(target, wireOffset, totalWires) ==
    [target EXCEPT !.qId = @ + wireOffset]

OffsetTarget(target, wireOffset, totalWires) ==
    [target EXCEPT
        !.qId = _circularMod(@, wireOffset, totalWires),
        !.cId = IF Truthy(@) THEN Some(_circularMod(Get(@), wireOffset, totalWires)) ELSE @]

\* control.cId is computed from control.qId, which the line before has already changed
OffsetControl(control, wireOffset, totalWires) ==
    LET qId == _circularMod(control.qId, wireOffset, totalWires)
    IN  [control EXCEPT
            !.qId = qId,
            !.cId = IF Truthy(@) THEN Some(_circularMod(qId, wireOffset, totalWires)) ELSE @]

\* mutant of _offsetRecursively: a measure operation is left alone at every depth
RECURSIVE OffsetSkippingMeasure(_, _, _)
OffsetSkippingMeasure(operation, wireOffset, totalWires) ==
    IF operation.gate = "measure" THEN operation
    ELSE [operation EXCEPT
        !.targets = [i \in 1..Len(@) |-> OffsetTarget(@[i], wireOffset, totalWires)],
        !.controls = IF IsSome(@)
                     THEN Some([i \in 1..Len(Get(@)) |->
                                   OffsetControl(Get(@)[i], wireOffset, totalWires)])
                     ELSE @,
        !.children = IF IsSome(@)
                     THEN Some([i \in 1..Len(Get(@)) |->
                                   OffsetSkippingMeasure(Get(@)[i], wireOffset, totalWires)])
                     ELSE @]

RECURSIVE _offsetRecursively(_, _, _)
_offsetRecursively(operation, wireOffset, totalWires) ==
    [operation EXCEPT
        !.targets = [i \in 1..Len(@) |-> OffsetTarget(@[i], wireOffset, totalWires)],
        !.controls = IF IsSome(@)
                     THEN Some([i \in 1..Len(Get(@)) |->
                                   OffsetControl(Get(@)[i], wireOffset, totalWires)])
                     ELSE @,
        !.children = IF IsSome(@)
                     THEN Some([i \in 1..Len(Get(@)) |->
                                   _offsetRecursively(Get(@)[i], wireOffset, totalWires)])
                     ELSE @]

\* mutant of _moveY: a measure operation is shifted like any other
MoveYShiftsMeasure(sourceWire, targetWire, operation, totalWires) ==
    _offsetRecursively(operation, ParseInt(targetWire) - ParseInt(sourceWire), totalWires)

\* mutant of _moveY: the offset is the target wire, as in _addY
MoveYAbsolute(sourceWire, targetWire, operation, totalWires) ==
    IF operation.gate # "measure"
    THEN _offsetRecursively(operation, ParseInt(targetWire), totalWires)
    ELSE operation

_moveY(sourceWire, targetWire, operation, totalWires) ==
    IF operation.gate # "measure"
    THEN _offsetRecursively(operation, ParseInt(targetWire) - ParseInt(sourceWire), totalWires)
    ELSE operation

_addY(targetWire, operation, totalWires) ==
    IF operation.gate # "measure"
    THEN _offsetRecursively(operation, ParseInt(targetWire), totalWires)
    ELSE operation

(***************************************************************************)
(* Targets of a group: the registers its children act on.                  *)
(***************************************************************************)
\* Array.from(new Set(values)): one entry per value, in order of first appearance
RECURSIVE Unique(_, _)
Unique(values, seen) ==
    IF values = <<>> THEN <<>>
    ELSE IF Head(values) \in seen THEN Unique(Tail(values), seen)
    ELSE <<Head(values)>> \o Unique(Tail(values), seen \cup {Head(values)})

\* mutant of _recurse: the children are visited whether or not the operation
\* has a controls array
RECURSIVE RecurseEveryChild(_)
RecurseEveryChild(operation) ==
    LET RECURSIVE Each(_)
        Each(arr) == IF arr = <<>> THEN <<>>
                     ELSE RecurseEveryChild(Head(arr)) \o Each(Tail(arr))
    IN  operation.targets
        \o (IF IsSome(operation.controls) THEN Get(operation.controls) ELSE <<>>)
        \o (IF IsSome(operation.children) THEN Each(Get(operation.children)) ELSE <<>>)

\* the registers _recurse pushes for one operation: its targets, then, when it
\* has a controls array (an empty one counts), its controls and what its
\* children push
RECURSIVE RecurseAll(_)
_recurse(operation) ==
    operation.targets
    \o (IF IsSome(operation.controls)
        THEN Get(operation.controls)
             \o (IF IsSome(operation.children)
                 THEN RecurseAll(Get(operation.children))
                 ELSE <<>>)
        ELSE <<>>)
RecurseAll(arr) ==
    IF arr = <<>> THEN <<>> ELSE _recurse(Head(arr)) \o RecurseAll(Tail(arr))

\* mutant of _targets: one register per collected register, duplicates kept
TargetsKeepDuplicates(operation) ==
    IF ~IsSome(operation.children) THEN <<>>
    ELSE LET registers == RecurseAll(Get(operation.children))
         IN  [i \in 1..Len(registers) |-> Reg(registers[i].qId)]

_targets(operation) ==
    IF ~IsSome(operation.children) THEN <<>>
    ELSE LET registers == RecurseAll(Get(operation.children))
             qIds == [i \in 1..Len(registers) |-> registers[i].qId]
             uniqueQIds == Unique(qIds, {})
         IN  [i \in 1..Len(uniqueQIds) |-> Reg(uniqueQIds[i])]

(***************************************************************************)
(* Std.Convert.IntAsBoolArray and BoolArrayAsInt.  A call either fails,    *)
(* with the message of the Fact that did not hold, or returns a value.     *)
(* An Int is a two's complement word of IntBits bits, modelled by the set  *)
(* of the positions of its bits that are 1; the bit at IntBits - 1 is the  *)
(* sign.                                                                   *)
(***************************************************************************)
IntBits == 64

Zero == {}

\* the word of a non-negative number, from bit i on
RECURSIVE WordFrom(_, _)
WordFrom(n, i) ==
    IF n = 0 THEN {}
    ELSE (IF n % 2 = 1 THEN {i} ELSE {}) \cup WordFrom(n \div 2, i + 1)

\* the word of a number: for a negative number, the complement of -n - 1
Word(n) ==
    IF n >= 0 THEN WordFrom(n, 0)
    ELSE (0..(IntBits - 1)) \ WordFrom((0 - n) - 1, 0)

\* x < 0
IsNegative(x) == (IntBits - 1) \in x

Fail(message) == [failed |-> TRUE, message |-> message, value |-> <<>>]
Value(v) == [failed |-> FALSE, message |-> "", value |-> v]

\* Fact(actual, message); rest: it fails with the message unless actual holds
Fact(actual, message, rest) == IF actual THEN rest ELSE Fail(message)

\* x &&& 1, and x >>> 1, which keeps the sign
AndOne(x) == IF 0 \in x THEN 1 ELSE 0
ShiftRightOne(x) ==
    {i - 1 : i \in x \ {0}} \cup (IF IsNegative(x) THEN {IntBits - 1} ELSE {})

\* 1 <<< i, for 0 <= i < IntBits
OneShiftedLeft(i) == {i}

\* x ||| y
BitwiseOr(x, y) == x \cup y

\* the state of the loop: the two mutable variables
Loop(runningValue, result) == [runningValue |-> runningValue, result |-> result]

\* mutant of ForBits: the new element is put at the front of the array
RECURSIVE ForBitsBigEndian(_, _)
ForBitsBigEndian(l, bits) ==
    IF Len(l.result) >= bits THEN l
    ELSE ForBitsBigEndian(Loop(ShiftRightOne(l.runningValue),
                               <<AndOne(l.runningValue) # 0>> \o l.result),
                          bits)

\* for _ in 1..bits { set result += [(runningValue &&& 1) != 0];
\*                    set runningValue >>>= 1; }
\* result, empty before the loop, has one element per iteration made
RECURSIVE ForBits(_, _)
ForBits(l, bits) ==
    IF Len(l.result) >= bits THEN l
    ELSE ForBits(Loop(ShiftRightOne(l.runningValue),
                      Append(l.result, AndOne(l.runningValue) # 0)),
                 bits)

IntAsBoolArray(number, bits) ==
    Fact(bits >= 0, "Requested number of bits must be non-negative.",
    Fact(~IsNegative(number), "Number must be non-negative.",
         LET l == ForBits(Loop(number, <<>>), bits)
         IN  Fact(l.runningValue = Zero,
                  "number is too large to fit into array of length bits.",
                  Value(l.result))))

\* the state of the loop of BoolArrayAsInt: the index and the mutable variable
LoopAt(i, number) == [i |-> i, number |-> number]

\* for i in 0..nBits - 1 { if (bits[i]) { set number |||= 1 <<< i; } }
RECURSIVE ForIndexes(_, _)
ForIndexes(bits, l) ==
    IF l.i > Len(bits) - 1 THEN l.number
    ELSE ForIndexes(bits,
                    LoopAt(l.i + 1,
                           IF bits[l.i + 1]
                           THEN BitwiseOr(l.number, OneShiftedLeft(l.i))
                           ELSE l.number))

\* mutant of BoolArrayAsInt: Fact(nBits <= 64, ...)
BoolArrayAsIntOfAWord(bits) ==
    LET nBits == Len(bits)
    IN  Fact(nBits <= IntBits, "Length(bits) must be less than 64.",
             Value(ForIndexes(bits, LoopAt(0, Zero))))

BoolArrayAsInt(bits) ==
    LET nBits == Len(bits)
    IN  Fact(nBits < IntBits, "Length(bits) must be less than 64.",
             Value(ForIndexes(bits, LoopAt(0, Zero))))

(***************************************************************************)
(* Inputs: the circuits an editing session may start from, the toolbox     *)
(* operations, the location strings and the wire strings.                  *)
(***************************************************************************)
GateH == Op("H", <<Reg(0)>>, None, None)
GateX == Op("X", <<Reg(1)>>, None, None)
GateCX == Op("X", <<Reg(1)>>, Some(<<Reg(0)>>), None)
GateM == Op("measure", <<RegC(2, 0)>>, Some(<<Reg(2)>>), None)
GateFoo == Op("Foo", <<Reg(0), Reg(1)>>, None, Some(<<GateH, GateCX>>))
GateBar == Op("Bar", <<Reg(1)>>, None, Some(<<GateX>>))
GateOuter == Op("Outer", <<Reg(1), Reg(0)>>, None, Some(<<GateBar, GateH>>))
GateEmpty == Op("Empty", <<>>, None, Some(<<>>))
\* an X controlled by a classical register
GateCond == Op("X", <<Reg(1)>>, Some(<<RegC(0, 2)>>), None)
\* a group that measures: a measure operation below a group
GateRead == Op("Read", <<Reg(0), Reg(2)>>, None, Some(<<GateH, GateM>>))
GateDeep == Op("Deep", <<Reg(0), Reg(1)>>, None, Some(<<GateH, GateX, GateOuter>>))

\* groups below a group: Raw has no controls property, Nil an empty controls
\* array, Ctl a control on wire 2
GateRaw == Op("Raw", <<Reg(2)>>, None, Some(<<GateH>>))
GateNil == Op("Nil", <<Reg(2)>>, Some(<<>>), Some(<<GateX>>))
GateCtl == Op("Ctl", <<Reg(1)>>, Some(<<Reg(2)>>), Some(<<GateH>>))
GateTop == Op("Top", <<Reg(2), Reg(1)>>, None, Some(<<GateRaw, GateNil>>))
GateSel == Op("Sel", <<Reg(1), Reg(2), Reg(0)>>, None, Some(<<GateCtl>>))

InitialCircuits ==
    { <<GateH, GateX>>,
      <<GateFoo, GateX>>,
      <<GateH, GateBar, GateM>>,
      <<GateOuter>>,
      <<GateEmpty, GateCX>>,
      <<GateRead, GateCond>>,
      <<GateTop, GateSel>> }

\* the circuits a page may show when the listeners are registered
EventCircuits ==
    { <<GateH, GateX>>,
      <<GateFoo, GateX>>,
      <<GateH, GateBar, GateM>>,
      <<GateDeep>> }

Toolbox == <<GateH, GateM>>

\* defaultGateDictionary when the page is loaded: the toolbox operations as
\* objects, at addresses below every address of the tree
TemplateUid(type) == 0 - type
Dictionary == [type \in 1..Len(Toolbox) |-> [Toolbox[type] EXCEPT !.uid = TemplateUid(type)]]

\* an object of the dictionary that the tree holds too is one object: it has
\* the value the tree shows
WrittenThrough(dictionary, ops) ==
    [type \in 1..Len(dictionary) |->
        IF HasUid(ops, dictionary[type].uid)
        THEN NodeByUid(ops, dictionary[type].uid)
        ELSE dictionary[type]]

RECURSIVE QIds(_)
QIds(arr) ==
    UNION { {r.qId : r \in {n.targets[i] : i \in 1..Len(n.targets)}}
            \cup (IF IsSome(n.controls)
                  THEN {Get(n.controls)[i].qId : i \in 1..Len(Get(n.controls))}
                  ELSE {})
            : n \in Nodes(arr) }

\* the wires the initial circuits are drawn on
MinWires == 1 + (CHOOSE m \in 0..9 :
                    /\ \E c \in InitialCircuits : m \in QIds(c)
                    /\ \A c \in InitialCircuits : \A q \in QIds(c) : q <= m)

\* the renderer's data-location of the operation at the given indexes
RECURSIVE Encode(_)
Encode(indexes) ==
    IF Len(indexes) = 1 THEN <<DigitChars[indexes[1] + 1]>>
    ELSE <<DigitChars[indexes[1] + 1], "-">> \o Encode(Tail(indexes))

Locations ==
    {<<>>} \cup {Encode(p) : p \in UNION {[1..n -> 0..MaxIndex] : n \in 1..MaxPathLen}}

\* data-wire, data-dropzone-wire
Wires == {<<DigitChars[i]>> : i \in 1..Len(wireData)}

Offsets == (0 - MaxOffset)..MaxOffset

NoCall == [op |-> "none", src |-> <<>>, dst |-> <<>>, tmpl |-> 0,
           pre |-> <<>>, ret |-> "none", uid |-> 0]

NoShift == [op |-> "none", sourceWire |-> <<>>, targetWire |-> <<>>,
            offset |-> 0, pre |-> <<>>]

\* no call of IntAsBoolArray is under way
NoConversion == [number |-> 0, bits |-> 0, called |-> FALSE, out |-> Value(<<>>),
                 kind |-> "none", array |-> <<>>, steps |-> 0, int |-> Value(Zero),
                 back |-> Value(<<>>), again |-> Value(Zero)]

\* what the last event handler did: the tree and the selection it started
\* from, the attributes of the element, the circuit manipulation call it made
\* and what the call returned, how many times it called renderFn, and
\* whether it ended by an exception
NoEvent == [name |-> "none", pre |-> <<>>, selected |-> <<>>,
            targetLoc |-> <<>>, targetWire |-> <<>>, ctrlKey |-> FALSE,
            expanded |-> FALSE, call |-> "none", ret |-> "none", uid |-> 0, renders |-> 0, threw |-> FALSE]

(***************************************************************************)
(* The state machine: one call of a finder or of a circuit manipulation    *)
(* function on the session's tree, then the vertical shift of the          *)
(* operation the call returned.                                            *)
(***************************************************************************)
Init ==
    /\ \E c \in InitialCircuits :
         /\ operations = Alloc(c, 1)
         /\ nextUid = 1 + Size(c)
    /\ \E n \in MinWires..MaxWires : wireData = [i \in 1..n |-> 40 * i]
    /\ pc = "ready"
    /\ last = NoCall
    /\ shift = NoShift
    /\ selectedOperation = Result("null", 0)
    /\ selectedLocation = NullLocation
    /\ selectedWire = NullLocation
    /\ event = NoEvent
    /\ clock = 0
    /\ conversion = NoConversion
    /\ defaultGateDictionary = Dictionary
    /\ bindings = <<>>
    /\ removed = <<>>

\* the call leaves outcome o
Return(name, src, dst, tmpl, o) ==
    /\ operations' = o.operations
    /\ defaultGateDictionary' = WrittenThrough(defaultGateDictionary, o.operations)
    /\ nextUid' = o.nextUid
    /\ last' = [op |-> name, src |-> src, dst |-> dst, tmpl |-> tmpl,
                pre |-> operations, ret |-> o.ret, uid |-> o.uid]
    /\ pc' = "returned"
    /\ UNCHANGED <<wireData, shift, selection, event, clock, conversion,
                   bindings, removed>>

Found(r) == Outcome(operations, r.kind, r.uid, nextUid)

FindParentOperation ==
    /\ pc = "ready"
    /\ \E location \in Locations :
         Return("findParentOperation", location, <<>>, 0,
                Found(_findParentOperation(operations, location)))

FindParentArray ==
    /\ pc = "ready"
    /\ \E location \in Locations :
         Return("findParentArray", location, <<>>, 0,
                Found(_findParentArray(operations, location)))

FindOperation ==
    /\ pc = "ready"
    /\ \E location \in Locations :
         Return("findOperation", location, <<>>, 0,
                Found(_findOperation(operations, location)))

RemoveOperation ==
    /\ pc = "ready"
    /\ \E sourceLocation \in Locations \ {<<>>} :
         Return("remove", sourceLocation, <<>>, 0,
                _removeOperation(operations, nextUid, sourceLocation))

MoveX ==
    /\ pc = "ready"
    /\ \E sourceLocation \in Locations, targetLocation \in Locations :
         Return("moveX", sourceLocation, targetLocation, 0,
                _moveX(operations, nextUid, sourceLocation, targetLocation))

CopyX ==
    /\ pc = "ready"
    /\ \E sourceLocation \in Locations, targetLocation \in Locations :
         Return("copyX", sourceLocation, targetLocation, 0,
                _copyX(operations, nextUid, sourceLocation, targetLocation))

AddOperation ==
    /\ pc = "ready"
    /\ \E t \in 1..Len(Toolbox), targetLocation \in Locations :
         Return("add", <<>>, targetLocation, t,
                _addOperation(operations, nextUid, defaultGateDictionary[t], targetLocation))

\* the operation object a call returned is changed in place
Shifted(name, sourceWire, targetWire, offset, new) ==
    /\ operations' = IF HasUid(operations, last.uid)
                     THEN ReplaceNode(operations, last.uid, new)
                     ELSE operations
    /\ defaultGateDictionary' =
           IF HasUid(operations, last.uid)
           THEN WrittenThrough(defaultGateDictionary,
                               ReplaceNode(operations, last.uid, new))
           ELSE defaultGateDictionary
    /\ shift' = [op |-> name, sourceWire |-> sourceWire, targetWire |-> targetWire,
                 offset |-> offset, pre |-> operations]
    /\ pc' = "shifted"
    /\ UNCHANGED <<wireData, nextUid, last, selection, event, clock, conversion,
                   bindings, removed>>

\* the operation last returned: in the tree, or detached from it
Returned ==
    IF HasUid(operations, last.uid) THEN NodeByUid(operations, last.uid)
    ELSE JsonClone(NodeByUid(last.pre, _findOperation(last.pre, last.src).uid), last.uid)

MoveY ==
    /\ pc = "returned"
    /\ last.ret = "operation"
    /\ \E sourceWire \in Wires, targetWire \in Wires :
         Shifted("moveY", sourceWire, targetWire,
                 ParseInt(targetWire) - ParseInt(sourceWire),
                 _moveY(sourceWire, targetWire, Returned, Len(wireData)))

AddY ==
    /\ pc = "returned"
    /\ last.ret = "operation"
    /\ \E targetWire \in Wires :
         Shifted("addY", <<>>, targetWire, ParseInt(targetWire),
                 _addY(targetWire, Returned, Len(wireData)))

OffsetRecursively ==
    /\ pc = "returned"
    /\ last.ret = "operation"
    /\ \E wireOffset \in Offsets :
         Shifted("offsetRecursively", <<>>, <<>>, wireOffset,
                 _offsetRecursively(Returned, wireOffset, Len(wireData)))

\* parentOperation.targets = this._targets(parentOperation), on the operation
\* _findParentOperation returned
Targets ==
    /\ pc = "returned"
    /\ last.op = "findParentOperation"
    /\ last.ret = "operation"
    /\ Shifted("targets", <<>>, <<>>, 0, [Returned EXCEPT !.targets = _targets(Returned)])

Next ==
    \/ FindParentOperation
    \/ FindParentArray
    \/ FindOperation
    \/ RemoveOperation
    \/ MoveX
    \/ CopyX
    \/ AddOperation
    \/ MoveY
    \/ AddY
    \/ OffsetRecursively
    \/ Targets

Spec == Init /\ [][Next]_vars

(***************************************************************************)
(* Calls of IntAsBoolArray: the arguments are drawn, then the function is  *)
(* applied to them.                                                        *)
(***************************************************************************)
Numbers == (0 - 3)..MaxNumber
BitCounts == (0 - 2)..MaxBits

\* the arrays of Bool: every array of at most MaxBits elements, and arrays
\* of IntBits - 2 to IntBits elements, whose elements are all false, all true,
\* true at every other index, or true at the last index only
LongArrays ==
    UNION { { [i \in 1..n |-> FALSE],
              [i \in 1..n |-> TRUE],
              [i \in 1..n |-> i % 2 = 1],
              [i \in 1..n |-> i = n] } : n \in (IntBits - 2)..IntBits }
BoolArrays == UNION {[1..n -> BOOLEAN] : n \in 0..MaxBits} \cup LongArrays

\* what is neither drawn nor used by a conversion
IdleEditor ==
    /\ operations = <<>>
    /\ nextUid = 1
    /\ wireData = <<>>
    /\ pc = "ready"
    /\ last = NoCall
    /\ shift = NoShift
    /\ selectedOperation = Result("null", 0)
    /\ selectedLocation = NullLocation
    /\ selectedWire = NullLocation
    /\ event = NoEvent
    /\ clock = 0
    /\ defaultGateDictionary = Dictionary
    /\ bindings = <<>>
    /\ removed = <<>>

\* the arguments of the first call: a number and a number of bits, or an array
InitConvert ==
    /\ IdleEditor
    /\ \/ \E number \in Numbers, bits \in BitCounts :
            conversion = [NoConversion EXCEPT !.kind = "number",
                                              !.number = number, !.bits = bits]
       \/ \E array \in BoolArrays :
            conversion = [NoConversion EXCEPT !.kind = "array", !.array = array]

Converting(c) ==
    /\ conversion' = c
    /\ UNCHANGED <<operations, wireData, nextUid, pc, last, shift, selection,
                   event, clock, defaultGateDictionary, bindings, removed>>

\* IntAsBoolArray(number, bits)
CallIntAsBoolArray ==
    /\ conversion.kind = "number"
    /\ conversion.steps = 0
    /\ Converting([conversion EXCEPT
                      !.called = TRUE,
                      !.steps = 1,
                      !.out = IntAsBoolArray(Word(conversion.number), conversion.bits)])

\* BoolArrayAsInt(IntAsBoolArray(number, bits))
ResultAsInt ==
    /\ conversion.kind = "number"
    /\ conversion.steps = 1
    /\ ~conversion.out.failed
    /\ Converting([conversion EXCEPT
                      !.steps = 2,
                      !.int = BoolArrayAsInt(conversion.out.value)])

\* BoolArrayAsInt(array)
CallBoolArrayAsInt ==
    /\ conversion.kind = "array"
    /\ conversion.steps = 0
    /\ Converting([conversion EXCEPT
                      !.steps = 1,
                      !.int = BoolArrayAsInt(conversion.array)])

\* IntAsBoolArray(BoolArrayAsInt(array), Length(array))
ResultAsBoolArray ==
    /\ conversion.kind = "array"
    /\ conversion.steps = 1
    /\ ~conversion.int.failed
    /\ Converting([conversion EXCEPT
                      !.steps = 2,
                      !.back = IntAsBoolArray(conversion.int.value, Len(conversion.array))])

\* BoolArrayAsInt of that array again
ResultAsIntAgain ==
    /\ conversion.kind = "array"
    /\ conversion.steps = 2
    /\ ~conversion.back.failed
    /\ Converting([conversion EXCEPT
                      !.steps = 3,
                      !.again = BoolArrayAsInt(conversion.back.value)])

NextConvert ==
    \/ CallIntAsBoolArray
    \/ ResultAsInt
    \/ CallBoolArrayAsInt
    \/ ResultAsBoolArray
    \/ ResultAsIntAgain

SpecConvert == InitConvert /\ [][NextConvert]_vars

(***************************************************************************)
(* The event handlers of a CircuitEvents object.  The elements of the      *)
(* page are those drawn from the tree: a gate element per operation, with  *)
(* a host element per wire the operation acts on, and a dropzone per       *)
(* position of every array, the position after the last element included.  *)
(***************************************************************************)
\* the indexes of every operation of the tree
RECURSIVE GatePaths(_)
GatePaths(arr) ==
    UNION { {<<i - 1>>}
            \cup (IF IsSome(arr[i].children)
                  THEN {<<i - 1>> \o p : p \in GatePaths(Get(arr[i].children))}
                  ELSE {})
            : i \in 1..Len(arr) }

\* the indexes of every position an operation can be dropped at
RECURSIVE DropPaths(_)
DropPaths(arr) ==
    {<<i>> : i \in 0..Len(arr)}
    \cup UNION { IF IsSome(arr[i].children)
                 THEN {<<i - 1>> \o p : p \in DropPaths(Get(arr[i].children))}
                 ELSE {}
                 : i \in 1..Len(arr) }

\* data-wire of the host elements of a gate element
HostWires(operation) ==
    {<<DigitChars[operation.targets[i].qId + 1]>> : i \in 1..Len(operation.targets)}
    \cup (IF IsSome(operation.controls)
          THEN {<<DigitChars[Get(operation.controls)[i].qId + 1]>> :
                   i \in 1..Len(Get(operation.controls))}
          ELSE {})

\* the operation value selectedOperation holds: a toolbox entry or an
\* operation object of the tree
SelectedValue ==
    IF selectedOperation.kind = "template" THEN defaultGateDictionary[selectedOperation.uid]
    ELSE NodeByUid(operations, selectedOperation.uid)

\* what a listener leaves behind: the tree, the next free address, the
\* selection, the circuit manipulation call it made and what the call
\* returned, how many times it called renderFn, whether it ended by an exception
Effect(ops, next, selOp, selLoc, selWire, call, ret, uid, renders, threw) ==
    [operations |-> ops, nextUid |-> next,
     selectedOperation |-> selOp, selectedLocation |-> selLoc, selectedWire |-> selWire,
     call |-> call, ret |-> ret, uid |-> uid, renders |-> renders, threw |-> threw]

\* the listener returns without an assignment
NoEffect ==
    Effect(operations, nextUid, selectedOperation, selectedLocation, selectedWire,
           "none", "none", 0, 0, FALSE)

\* the listener ends by an exception: the tree as the call left it, the
\* selection as it was
Thrown(call, ops, next) ==
    Effect(ops, next, selectedOperation, selectedLocation, selectedWire,
           call, "throw", 0, 0, TRUE)

\* if (isEqual(originalOperations, this.operations) === false) this.renderFn()
RenderIfChanged(ops) == IF Strip(ops) # Strip(operations) THEN 1 ELSE 0

\* the listener of the element with these attributes ran and left effect e
HandledOn(name, targetLoc, targetWire, ctrlKey, expanded, e) ==
    /\ operations' = e.operations
    /\ defaultGateDictionary' = WrittenThrough(defaultGateDictionary, e.operations)
    /\ nextUid' = e.nextUid
    /\ selectedOperation' = e.selectedOperation
    /\ selectedLocation' = e.selectedLocation
    /\ selectedWire' = e.selectedWire
    /\ event' = [name |-> name, pre |-> operations, selected |-> selection,
                 targetLoc |-> targetLoc, targetWire |-> targetWire, ctrlKey |-> ctrlKey,
                 expanded |-> expanded, call |-> e.call, ret |-> e.ret, uid |-> e.uid,
                 renders |-> e.renders, threw |-> e.threw]
    /\ clock' = clock + 1
    /\ UNCHANGED <<wireData, pc, last, shift, conversion, bindings, removed>>

\* the same, for an element that is not an expanded group
Handled(name, targetLoc, targetWire, ctrlKey, e) ==
    HandledOn(name, targetLoc, targetWire, ctrlKey, FALSE, e)

\* mutant of GateMouseDownEffect: data-expanded is not read
ArmedWhateverExpanded(location, wire, expanded) ==
    LET found == _findOperation(operations, location)
    IN  IF found.kind = "throw"
        THEN Effect(operations, nextUid, selectedOperation, location, wire,
                    "findOperation", "throw", 0, 0, TRUE)
        ELSE Effect(operations, nextUid, found, location, wire,
                    "findOperation", found.kind, found.uid, 0, FALSE)

\* the listener of a host element, then the listener of its gate element
GateMouseDownEffect(location, wire, expanded) ==
    IF expanded
    THEN Effect(operations, nextUid, selectedOperation, selectedLocation, wire,
                "none", "none", 0, 0, FALSE)
    ELSE LET found == _findOperation(operations, location)
         IN  IF found.kind = "throw"
             THEN Effect(operations, nextUid, selectedOperation, location, wire,
                         "findOperation", "throw", 0, 0, TRUE)
             ELSE Effect(operations, nextUid, found, location, wire,
                         "findOperation", found.kind, found.uid, 0, FALSE)

\* mousedown on a host element of a gate element
GateMouseDown ==
    /\ clock < MaxEvents
    /\ \E p \in GatePaths(operations) :
         \E wire \in HostWires(NodeByUid(operations, _findOperation(operations, Encode(p)).uid)),
            expanded \in BOOLEAN :
            /\ expanded => IsSome(NodeByUid(operations,
                                            _findOperation(operations, Encode(p)).uid).children)
            /\ HandledOn("gateMouseDown", Encode(p), wire, FALSE, expanded,
                         GateMouseDownEffect(Encode(p), wire, expanded))

\* this.selectedOperation = defaultGateDictionary[type]
ToolboxMouseDownEffect(type) ==
    Effect(operations, nextUid, Result("template", type),
           selectedLocation, selectedWire, "none", "none", 0, 0, FALSE)

\* mousedown on a toolbox element
ToolboxMouseDown ==
    /\ clock < MaxEvents
    /\ \E type \in 1..Len(Toolbox) :
         Handled("toolboxMouseDown", <<>>, <<>>, FALSE, ToolboxMouseDownEffect(type))

\* the end of both branches of the dropzone listener: the selection is
\* cleared (selectedLocation by the move branch only) and renderFn is called
\* when the tree is not equal to the copy taken at the start
Dropped(call, o, ops, selLoc) ==
    Effect(ops, o.nextUid, Result("null", 0), selLoc, selectedWire,
           call, o.ret, o.uid, RenderIfChanged(ops), FALSE)

\* if (newOperation != null) this._addY(targetWire, newOperation, this.wireData.length)
Added(o, targetWire) ==
    IF o.ret = "throw" THEN Thrown("add", operations, nextUid)
    ELSE IF o.ret = "operation"
    THEN Dropped("add", o,
                 ReplaceNode(o.operations, o.uid,
                             _addY(targetWire, NodeByUid(o.operations, o.uid),
                                   Len(wireData))),
                 selectedLocation)
    ELSE Dropped("add", o, o.operations, selectedLocation)

\* the branch of the dropzone listener that adds an operation from the toolbox
AddFromToolbox(targetLoc, targetWire) ==
    Added(_addOperation(operations, nextUid, SelectedValue, targetLoc), targetWire)

\* parentOperation.targets = this._targets(parentOperation)
WithTargets(parentOperation) ==
    [parentOperation EXCEPT !.targets = _targets(parentOperation)]

\* const parentOperation = this._findParentOperation(this.selectedLocation), on
\* the tree as the move left it, and the assignment of its targets
ParentRecomputed(call, o, moved, parentOperation) ==
    IF parentOperation.kind = "throw" THEN Thrown(call, moved, o.nextUid)
    ELSE IF parentOperation.kind = "operation"
    THEN Dropped(call, o,
                 ReplaceNode(moved, parentOperation.uid,
                             WithTargets(NodeByUid(moved, parentOperation.uid))),
                 NullLocation)
    ELSE Dropped(call, o, moved, NullLocation)

\* this._moveY(this.selectedWire, targetWire, newSourceOperation, ...): the
\* object is changed in place, in the tree unless it has left the tree
MovedY(o, targetWire) ==
    IF HasUid(o.operations, o.uid)
    THEN ReplaceNode(o.operations, o.uid,
                     _moveY(selectedWire, targetWire, NodeByUid(o.operations, o.uid),
                            Len(wireData)))
    ELSE o.operations

\* if (newSourceOperation != null) { ... }
MovedX(call, o, moved) ==
    IF o.ret = "throw" THEN Thrown(call, operations, nextUid)
    ELSE IF o.ret = "operation"
    THEN ParentRecomputed(call, o, moved, _findParentOperation(moved, selectedLocation))
    ELSE Dropped(call, o, o.operations, NullLocation)

\* the branch of the dropzone listener that moves or copies the selected operation
MoveOrCopy(targetLoc, targetWire, ctrlKey) ==
    IF ctrlKey
    THEN MovedX("copyX", _copyX(operations, nextUid, selectedLocation, targetLoc),
                MovedY(_copyX(operations, nextUid, selectedLocation, targetLoc), targetWire))
    ELSE MovedX("moveX", _moveX(operations, nextUid, selectedLocation, targetLoc),
                MovedY(_moveX(operations, nextUid, selectedLocation, targetLoc), targetWire))

\* the listener of a dropzone element
DropzoneMouseUpEffect(targetLoc, targetWire, ctrlKey) ==
    IF selectedLocation = NullLocation /\ selectedOperation.kind # "null"
    THEN AddFromToolbox(targetLoc, targetWire)
    ELSE IF \/ IsNullish(selectedOperation)
            \/ selectedLocation = NullLocation
            \/ selectedWire = NullLocation
    THEN NoEffect
    ELSE MoveOrCopy(targetLoc, targetWire, ctrlKey)

\* mouseup on a dropzone element
DropzoneMouseUp ==
    /\ clock < MaxEvents
    /\ \E p \in DropPaths(operations), targetWire \in Wires, ctrlKey \in BOOLEAN :
         Handled("dropzoneMouseUp", Encode(p), targetWire, ctrlKey,
                 DropzoneMouseUpEffect(Encode(p), targetWire, ctrlKey))

\* the keydown listener of the document, for the Delete key
DeleteKeyDownEffect(ctrlKey) ==
    IF ctrlKey /\ ~Falsy(selectedLocation) THEN NoEffect
    ELSE IF selectedLocation # NullLocation
    THEN LET o == _removeOperation(operations, nextUid, selectedLocation)
         IN  IF o.ret = "throw" THEN Thrown("remove", operations, nextUid)
             ELSE Effect(o.operations, o.nextUid,
                         selectedOperation, selectedLocation, selectedWire,
                         "remove", o.ret, o.uid, 1, FALSE)
    ELSE NoEffect

\* keydown of the Delete key
DeleteKeyDown ==
    /\ clock < MaxEvents
    /\ \E ctrlKey \in BOOLEAN :
         Handled("deleteKeyDown", <<>>, <<>>, ctrlKey, DeleteKeyDownEffect(ctrlKey))

\* mouseup on the document, outside every dropzone element
DocumentMouseUp ==
    /\ clock < MaxEvents
    /\ Handled("documentMouseUp", <<>>, <<>>, FALSE, NoEffect)

\* a CircuitEvents object as its constructor leaves it, on one of the pages
InitEvents ==
    /\ \E c \in EventCircuits :
         /\ operations = Alloc(c, 1)
         /\ nextUid = 1 + Size(c)
    /\ \E n \in MinWires..MaxWires : wireData = [i \in 1..n |-> 40 * i]
    /\ pc = "ready"
    /\ last = NoCall
    /\ shift = NoShift
    /\ selectedOperation = Result("null", 0)
    /\ selectedLocation = NullLocation
    /\ selectedWire = NullLocation
    /\ event = NoEvent
    /\ clock = 0
    /\ conversion = NoConversion
    /\ defaultGateDictionary = Dictionary
    /\ bindings = <<>>
    /\ removed = <<>>

NextEvents ==
    \/ GateMouseDown
    \/ ToolboxMouseDown
    \/ DropzoneMouseUp
    \/ DeleteKeyDown
    \/ DocumentMouseUp

SpecEvents == InitEvents /\ [][NextEvents]_vars

(***************************************************************************)
(* extensionEvents invoked again on the same circuit.  Every invocation    *)
(* constructs a CircuitEvents object and registers its listeners; the      *)
(* listeners registered on the document are never removed, so a keydown    *)
(* runs the listener of every object constructed so far, in the order of   *)
(* registration, each with the selection of its own object.  The elements  *)
(* of the page belong to the latest object: bindings holds the selections  *)
(* of the earlier ones.                                                    *)
(***************************************************************************)
\* the objects whose keydown listener the document holds, oldest first
Listeners == bindings \o <<selection>>

\* what a keydown has done so far: the tree, the operations removed and by
\* which object, the calls of renderFn
Pressed(ops, rem, renders) == [operations |-> ops, removed |-> rem, renders |-> renders]

\* the keydown listener of the object at index b, whose selectedLocation is
\* location; an exception ends this listener only
KeyDownListener(k, b, location, ctrlKey) ==
    IF ctrlKey /\ ~Falsy(location) THEN k
    ELSE IF location # NullLocation
    THEN LET found == _findOperation(k.operations, location)
             o == _removeOperation(k.operations, nextUid, location)
         IN  IF o.ret = "throw" THEN k
             ELSE Pressed(o.operations,
                          IF o.ret = "undefined"
                          THEN Append(k.removed, [binding |-> b, uid |-> found.uid])
                          ELSE k.removed,
                          k.renders + 1)
    ELSE k

\* the listeners from index b on, one after the other
RECURSIVE KeyDownFrom(_, _, _)
KeyDownFrom(k, b, ctrlKey) ==
    IF b > Len(Listeners) THEN k
    ELSE KeyDownFrom(KeyDownListener(k, b, Listeners[b][2], ctrlKey), b + 1, ctrlKey)

\* keydown of the Delete key, with every listener of the document
DeleteKeyPress ==
    /\ clock < MaxKeyEvents
    /\ \E ctrlKey \in BOOLEAN :
         LET k == KeyDownFrom(Pressed(operations, <<>>, 0), 1, ctrlKey)
         IN  /\ operations' = k.operations
             /\ removed' = k.removed
             /\ defaultGateDictionary' = WrittenThrough(defaultGateDictionary, k.operations)
             /\ event' = [NoEvent EXCEPT !.name = "deleteKeyDown", !.pre = operations,
                                         !.selected = selection, !.ctrlKey = ctrlKey,
                                         !.call = "remove", !.renders = k.renders]
             /\ clock' = clock + 1
             /\ UNCHANGED <<wireData, nextUid, pc, last, shift, selection, conversion,
                            bindings>>

\* the host redraws after renderFn and calls extensionEvents: a new object,
\* with no selection; the earlier one keeps its own
ExtensionEvents ==
    /\ event.renders > 0
    /\ Len(bindings) < MaxBindings - 1
    /\ bindings' = Append(bindings, selection)
    /\ selectedOperation' = Result("null", 0)
    /\ selectedLocation' = NullLocation
    /\ selectedWire' = NullLocation
    /\ event' = [NoEvent EXCEPT !.name = "extensionEvents"]
    /\ UNCHANGED <<operations, wireData, nextUid, pc, last, shift, clock, conversion,
                   defaultGateDictionary, removed>>

NextBindings ==
    \/ GateMouseDown
    \/ DeleteKeyPress
    \/ ExtensionEvents

SpecBindings == InitEvents /\ [][NextBindings]_vars

(***************************************************************************)
(* Adds from the toolbox alone: MaxAdds gestures, each a mousedown on a    *)
(* toolbox element and a mouseup on a dropzone element.                    *)
(***************************************************************************)
ToolboxDrag ==
    /\ clock < 2 * MaxAdds
    /\ \E type \in 1..Len(Toolbox) :
         Handled("toolboxMouseDown", <<>>, <<>>, FALSE, ToolboxMouseDownEffect(type))

ToolboxDrop ==
    /\ clock < 2 * MaxAdds
    /\ \E p \in DropPaths(operations), targetWire \in Wires, ctrlKey \in BOOLEAN :
         Handled("dropzoneMouseUp", Encode(p), targetWire, ctrlKey,
                 DropzoneMouseUpEffect(Encode(p), targetWire, ctrlKey))

NextToolbox ==
    \/ ToolboxDrag
    \/ ToolboxDrop

SpecToolbox == InitEvents /\ [][NextToolbox]_vars

(***************************************************************************)
(* Vocabulary of the properties: the call just made, seen from the tree    *)
(* it was made on.                                                         *)
(***************************************************************************)
Called(name) == pc # "ready" /\ last.op = name

\* the source operation, its parent array and the target array, before the call
SourceUid == _findOperation(last.pre, last.src).uid
SourceBefore == NodeByUid(last.pre, SourceUid)
SourceOwner == _findParentArray(last.pre, last.src).uid
TargetOwner == _findParentArray(last.pre, last.dst).uid
TargetIndex == Min(Get(_lastIndex(last.dst)), Len(ArrayOf(last.pre, TargetOwner)))

\* 0-based index of the operation at address u in arr
IndexOf(arr, u) == (CHOOSE i \in 1..Len(arr) : arr[i].uid = u) - 1
SourceIndex == IndexOf(ArrayOf(last.pre, SourceOwner), SourceUid)

\* the target array is the children of the source or of one of its descendants
TargetInsideSource == TargetOwner \in Uids(<<SourceBefore>>)

\* moveX(src, dst) with src != dst and valid resolution
Moved == Called("moveX") /\ last.src # last.dst /\ last.ret = "operation"
Copied == Called("copyX") /\ last.ret = "operation"
Removed == Called("remove") /\ last.ret = "undefined"

CloneUid == last.uid

\* a location as the renderer emits it: every intermediate index addresses an
\* operation that has children
RECURSIVE WellFormedFrom(_, _)
WellFormedFrom(arr, indexes) ==
    \/ Len(indexes) <= 1
    \/ /\ InRange(arr, indexes[1])
       /\ IsSome(arr[indexes[1] + 1].children)
       /\ WellFormedFrom(Get(arr[indexes[1] + 1].children), Tail(indexes))
WellFormed(ops, location) == WellFormedFrom(ops, _indexes(location))

\* all the registers of an operation and of its descendants
RECURSIVE Registers(_)
RegistersOf(n) ==
    n.targets \o (IF IsSome(n.controls) THEN Get(n.controls) ELSE <<>>)
              \o (IF IsSome(n.children) THEN Registers(Get(n.children)) ELSE <<>>)
Registers(arr) ==
    IF arr = <<>> THEN <<>> ELSE RegistersOf(Head(arr)) \o Registers(Tail(arr))

(***************************************************************************)
(* C1.  Move preserves cardinality: after moveX(src, dst) with src # dst   *)
(* and valid resolution, also when dst lies inside the subtree of src, the *)
(* tree holds as many operations, counted at every depth, as before.       *)
(* The code breaks this when dst lies inside the subtree of src.           *)
(***************************************************************************)
C1_MovePreservesCardinality == Moved => Size(operations) = Size(last.pre)

(***************************************************************************)
(* C2.  As claimed: after moveX(src, dst) with src # dst and valid         *)
(* resolution the original source is no longer in the tree and resolving   *)
(* dst against the new tree returns an operation structurally identical to *)
(* the source, for every relative position of src and dst.                 *)
(***************************************************************************)
C2_Original ==
    Moved /\ pc = "returned" =>
        /\ ~HasUid(operations, SourceUid)
        /\ LET r == _findOperation(operations, last.dst)
           IN  /\ r.kind = "operation"
               /\ StripNode(NodeByUid(operations, r.uid)) = StripNode(SourceBefore)

\* the index at which the clone ends in the target array
Landing ==
    TargetIndex - (IF SourceOwner = TargetOwner /\ SourceIndex < TargetIndex THEN 1 ELSE 0)

\* the source was an earlier sibling of dst or of one of dst's ancestors
SourcePrecedesTarget ==
    LET indexes == _indexes(last.dst)
    IN  \E k \in 1..Len(indexes) :
           /\ Walk(last.pre, ROOT, SubSeq(indexes, 1, k - 1)).uid = SourceOwner
           /\ SourceIndex < indexes[k]

(***************************************************************************)
(* C2, amended.  After moveX(src, dst) with src # dst and valid resolution *)
(* the original source is no longer in the tree and the returned clone is  *)
(* structurally identical to it.  The clone is spliced in before the       *)
(* element dst addressed and the source is spliced out afterwards: the     *)
(* clone ends in dst's parent array at index min(dst index, length), one   *)
(* lower when the source was an earlier element of that array; when that   *)
(* array belongs to the subtree of src the clone leaves the tree with the  *)
(* source.  For well-formed src and dst (dst index within the array),      *)
(* resolving dst afterwards returns the clone exactly when the source was  *)
(* not an earlier sibling of dst or of one of dst's ancestors.             *)
(***************************************************************************)
C2_MoveLandsBeforeTarget ==
    Moved /\ pc = "returned" =>
        /\ ~HasUid(operations, SourceUid)
        /\ IF TargetInsideSource THEN ~HasUid(operations, CloneUid)
           ELSE LET arr == ArrayOf(operations, TargetOwner)
                IN  /\ Landing < Len(arr)
                    /\ arr[Landing + 1].uid = CloneUid
                    /\ StripNode(arr[Landing + 1]) = StripNode(SourceBefore)
        /\ (/\ WellFormed(last.pre, last.src)
            /\ WellFormed(last.pre, last.dst)
            /\ ~TargetInsideSource
            /\ Get(_lastIndex(last.dst)) <= Len(ArrayOf(last.pre, TargetOwner)))
           => (_findOperation(operations, last.dst) = Result("operation", CloneUid)
                  <=> ~SourcePrecedesTarget)

\* src and dst in the same sibling array, src index smaller than dst index
C2_Witness ==
    /\ Moved
    /\ pc = "returned"
    /\ SourceOwner = TargetOwner
    /\ SourceIndex < TargetIndex
    /\ WellFormed(last.pre, last.dst)
    /\ HasUid(operations, CloneUid)
    /\ _findOperation(operations, last.dst).uid # CloneUid

(***************************************************************************)
(* C3.  The end-to-end scenario: the tree [H on wire 0, X on wire 1],      *)
(* three wires, moveX("0", "1"), then the returned operation shifted by 1. *)
(***************************************************************************)
GateH1 == Op("H", <<Reg(1)>>, None, None)

Scenario ==
    /\ Called("moveX")
    /\ Strip(last.pre) = <<GateH, GateX>>
    /\ last.src = <<"0">>
    /\ last.dst = <<"1">>
    /\ Len(wireData) = 3
    /\ pc = "shifted"
    /\ shift.op \in {"moveY", "offsetRecursively"}
    /\ shift.offset = 1

\* C3 as claimed: the scenario yields [X on wire 1, H on wire 1]
C3_Original == Scenario => Strip(operations) = <<GateX, GateH1>>

\* C3, amended: the scenario yields [H on wire 1, X on wire 1], two operations:
\* the clone is spliced in before X and the original H, in front of it, is spliced out
C3_Scenario ==
    Scenario => Strip(operations) = <<GateH1, GateX>> /\ Size(operations) = 2

C3_Witness == Scenario /\ shift.op = "offsetRecursively"

(***************************************************************************)
(* C4.  As claimed: after copyX(src, dst), src a leaf or a composite, the  *)
(* tree holds exactly one operation more than before.                      *)
(***************************************************************************)
C4_Original == Copied => Size(operations) = Size(last.pre) + 1

\* C4, amended: after copyX(src, dst) the node count has grown by the number of
\* operations in the source's subtree (the source and all its descendants):
\* by exactly one when the source is a leaf
C4_CopyAddsSubtree ==
    Copied => Size(operations) = Size(last.pre) + Size(<<SourceBefore>>)

C4_Witness ==
    /\ Copied
    /\ Size(<<SourceBefore>>) > 1
    /\ Size(operations) > Size(last.pre) + 1

(***************************************************************************)
(* C5.  As claimed: after copyX(src, dst) and the wire shift of the clone  *)
(* the source operation, children included, is what it was before the      *)
(* copy, for every dst, also one inside the source's own children.         *)
(***************************************************************************)
C5_Original == Copied => NodeByUid(operations, SourceUid) = SourceBefore

\* C5, amended: after copyX(src, dst) and the wire shift of the clone, the source
\* keeps its kind, targets and controls, and its children subtree is what it was
\* unless dst lies inside that subtree: then the clone has been spliced into it
C5_CopyLeavesSource ==
    Copied =>
        LET before == SourceBefore
            found == Lookup(operations, before.uid)
            inside == TargetOwner \in Uids(<<before>>)
        IN  /\ found # <<>>
            /\ found[1].gate = before.gate
            /\ found[1].targets = before.targets
            /\ found[1].controls = before.controls
            /\ found[1].dataAttributes = before.dataAttributes
            /\ ~inside => found[1] = before
            /\ inside =>
                  /\ HasUid(Get(found[1].children), CloneUid)
                  /\ Size(found) = 2 * Size(<<before>>)

\* a copy into another array, then a shift that changes the clone's wires
C5_Witness ==
    /\ Copied
    /\ ~TargetInsideSource
    /\ pc = "shifted"
    /\ shift.offset # 0
    /\ StripNode(NodeByUid(operations, CloneUid)) # StripNode(SourceBefore)

(***************************************************************************)
(* C6.  As claimed: after remove(src), src a leaf or a composite, the tree *)
(* holds exactly one operation less than before.                           *)
(***************************************************************************)
C6_Original == Removed => Size(operations) = Size(last.pre) - 1

\* C6, amended: after remove(src) the source is gone and the node count has
\* dropped by the number of operations in the source's subtree: by exactly one
\* when the source is a leaf
C6_RemoveDropsSubtree ==
    Removed =>
        /\ Size(operations) = Size(last.pre) - Size(<<SourceBefore>>)
        /\ Uids(operations) = Uids(last.pre) \ Uids(<<SourceBefore>>)

C6_Witness ==
    /\ Removed
    /\ Size(<<SourceBefore>>) > 1
    /\ Size(operations) < Size(last.pre) - 1

\* what a second remove with the same path would leave
RemovedAgain == _removeOperation(operations, nextUid, last.src)

(***************************************************************************)
(* C7.  As claimed: after remove(src) succeeds, a second remove with the   *)
(* same path leaves the tree unchanged and raises no error, whatever       *)
(* position src had among its siblings.                                    *)
(***************************************************************************)
C7_Original ==
    Removed /\ pc = "returned" =>
        RemovedAgain.operations = operations /\ RemovedAgain.ret # "throw"

SourceWasLast == SourceIndex = Len(ArrayOf(last.pre, SourceOwner)) - 1

\* C7, amended: after remove(src) succeeds, a second remove with the same path
\* leaves the tree unchanged only when src no longer resolves to an operation;
\* when it still does, that operation is removed in turn.  For a well-formed src
\* the second call raises no error, and src no longer resolves exactly when the
\* source was the last element of its sibling array: otherwise the sibling that
\* followed it now sits at src and is the one removed
C7_SecondRemove ==
    Removed /\ pc = "returned" =>
        LET r == _findOperation(operations, last.src)
        IN  /\ r.kind # "operation" => RemovedAgain.operations = operations
            /\ r.kind = "operation" =>
                  /\ RemovedAgain.ret = "undefined"
                  /\ ~HasUid(RemovedAgain.operations, r.uid)
                  /\ Size(RemovedAgain.operations) < Size(operations)
            /\ WellFormed(last.pre, last.src) =>
                  /\ RemovedAgain.ret # "throw"
                  /\ r.kind = "operation" <=> ~SourceWasLast
                  /\ ~SourceWasLast =>
                        r.uid = ArrayOf(last.pre, SourceOwner)[SourceIndex + 2].uid

\* the source had a following sibling, which the second remove takes out
C7_Witness ==
    /\ Removed
    /\ pc = "returned"
    /\ WellFormed(last.pre, last.src)
    /\ ~SourceWasLast
    /\ Size(RemovedAgain.operations) < Size(operations)

(***************************************************************************)
(* C8.  Mutator totality: add, moveX, copyX and remove never throw, and    *)
(* when one returns not-found the tree is what it was before the call.     *)
(* The code throws on an out-of-range intermediate index.                  *)
(***************************************************************************)
C8_MutatorsTotal ==
    pc = "returned" /\ last.op \in {"add", "moveX", "copyX", "remove"} =>
        /\ last.ret # "throw"
        /\ last.ret = "null" => operations = last.pre

(***************************************************************************)
(* C9.  Accessor totality: resolveParentArray, resolveNode and             *)
(* resolveParentNode never throw, whatever the path.  The code throws on   *)
(* an out-of-range intermediate index.                                     *)
(***************************************************************************)
C9_AccessorsTotal ==
    pc = "returned"
    /\ last.op \in {"findParentArray", "findOperation", "findParentOperation"}
    => last.ret # "throw"

\* an offset has been applied to an operation of the tree
OffsetApplied ==
    pc = "shifted" /\ shift.op = "offsetRecursively" /\ HasUid(operations, last.uid)

RegistersBefore == RegistersOf(NodeByUid(shift.pre, last.uid))
RegistersAfter == RegistersOf(NodeByUid(operations, last.uid))

(***************************************************************************)
(* C10.  Modulo correctness: shiftWires replaces every wireId of the       *)
(* operation and of its descendants by the one value of [0, wireCount)     *)
(* congruent to wireId + offset, for negative offsets and for offsets      *)
(* larger than wireCount; offset -1 on wire 0 of 4 gives 3, offset +5 on   *)
(* wire 1 of 4 gives 2.                                                    *)
(***************************************************************************)
C10_ModuloCorrect ==
    OffsetApplied =>
        LET n == Len(wireData)
        IN  /\ Len(RegistersAfter) = Len(RegistersBefore)
            /\ \A i \in 1..Len(RegistersBefore) :
                  LET before == RegistersBefore[i].qId
                      after == RegistersAfter[i].qId
                  IN  /\ before \in 0..(n - 1)
                      /\ after \in 0..(n - 1)
                      /\ \E k \in (0 - MaxOffset - 1)..(MaxOffset + 1) :
                            after = before + shift.offset + k * n
                      /\ (n = 4 /\ shift.offset = 0 - 1 /\ before = 0) => after = 3
                      /\ (n = 4 /\ shift.offset = 5 /\ before = 1) => after = 2

\* a negative offset larger than the wire count, on wire 0
C10_Witness ==
    /\ OffsetApplied
    /\ Len(wireData) = 4
    /\ shift.offset = 0 - 5
    /\ \E i \in 1..Len(RegistersBefore) :
          RegistersBefore[i].qId = 0 /\ RegistersAfter[i].qId = 3

\* _moveY or _addY has been applied to an operation of the tree
WireShifted ==
    pc = "shifted" /\ shift.op \in {"moveY", "addY"} /\ HasUid(operations, last.uid)

\* what the vertical step adds to a wire: targetWire - sourceWire for a move,
\* targetWire for an add, which has no source wire
WireOffset ==
    ParseInt(shift.targetWire)
    - (IF shift.op = "moveY" THEN ParseInt(shift.sourceWire) ELSE 0)

(***************************************************************************)
(* C11.  Measure exemption: the vertical step of a move or of an add       *)
(* (_moveY, _addY) leaves an operation whose gate is "measure" as it was,  *)
(* registers included; for any other gate every register of the operation  *)
(* and of all its descendants gets the wire (qId + targetWire - sourceWire) *)
(* mod wireCount, where an add counts its source wire as 0.                *)
(***************************************************************************)
C11_MeasureExemption ==
    WireShifted =>
        LET before == NodeByUid(shift.pre, last.uid)
            after == NodeByUid(operations, last.uid)
            n == Len(wireData)
        IN  IF before.gate = "measure"
            THEN after = before
            ELSE /\ Len(RegistersOf(after)) = Len(RegistersOf(before))
                 /\ \A i \in 1..Len(RegistersOf(before)) :
                       RegistersOf(after)[i].qId
                           = (RegistersOf(before)[i].qId + WireOffset) % n

\* a measure operation moved from wire 0 to wire 2 keeps its registers
C11_Witness ==
    /\ WireShifted
    /\ shift.op = "moveY"
    /\ shift.sourceWire = <<"0">>
    /\ shift.targetWire = <<"2">>
    /\ NodeByUid(shift.pre, last.uid).gate = "measure"
    /\ RegistersOf(NodeByUid(operations, last.uid)) = <<RegC(2, 0), Reg(2)>>

\* _targets has been applied to a group of the tree
Aggregated ==
    /\ pc = "shifted"
    /\ shift.op = "targets"
    /\ IsSome(NodeByUid(shift.pre, last.uid).children)

\* the registers the aggregator collected from the children of the group
Collected == RecurseAll(Get(NodeByUid(shift.pre, last.uid).children))

(***************************************************************************)
(* C12.  Target aggregation: for a group, _targets returns exactly one     *)
(* register per distinct qId among the registers it collects, in order of  *)
(* first appearance (a child's targets before its controls, children in    *)
(* sibling order), each of type 0 and without cId; children with targets   *)
(* [1] and with targets [1], controls [2] give [1, 2].                      *)
(***************************************************************************)
C12_TargetAggregation ==
    /\ _targets(Op("G", <<>>, None,
                   Some(<<Op("X", <<Reg(1)>>, None, None),
                          Op("X", <<Reg(1)>>, Some(<<Reg(2)>>), None)>>)))
           = <<[type |-> 0, qId |-> 1, cId |-> None], [type |-> 0, qId |-> 2, cId |-> None]>>
    /\ Aggregated =>
        LET result == NodeByUid(operations, last.uid).targets
            First(q) == CHOOSE i \in 1..Len(Collected) :
                            /\ Collected[i].qId = q
                            /\ \A j \in 1..(i - 1) : Collected[j].qId # q
        IN  /\ \A i \in 1..Len(result) :
                  result[i] = [type |-> 0, qId |-> result[i].qId, cId |-> None]
            /\ \A i, j \in 1..Len(result) : i # j => result[i].qId # result[j].qId
            /\ {result[i].qId : i \in 1..Len(result)}
                   = {Collected[i].qId : i \in 1..Len(Collected)}
            /\ \A i, j \in 1..Len(result) :
                  i < j => First(result[i].qId) < First(result[j].qId)

\* a wire collected twice, from a target and from a control, is kept once
C12_Witness ==
    /\ Aggregated
    /\ [i \in 1..Len(Collected) |-> Collected[i].qId] = <<0, 1, 0>>
    /\ NodeByUid(operations, last.uid).targets = <<Reg(0), Reg(1)>>

(***************************************************************************)
(* Vocabulary of the properties of the event handlers: the listener that   *)
(* ran last, seen from the tree and the selection it started from.         *)
(***************************************************************************)
Dropzone == event.name = "dropzoneMouseUp"
DeleteKey == event.name = "deleteKeyDown"

\* selectedOperation, selectedLocation, selectedWire when the listener started
ArmedOperation == event.selected[1]
ArmedLocation == event.selected[2]
ArmedWire == event.selected[3]

\* the listener made a circuit manipulation call and the call did its work
Committed ==
    \/ event.call \in {"add", "moveX", "copyX"} /\ event.ret = "operation"
    \/ event.call = "remove" /\ event.ret = "undefined"

TreeChanged == Strip(operations) # Strip(event.pre)

\* the wires of a sequence of registers
WiresOf(registers) == {registers[i].qId : i \in 1..Len(registers)}

\* every group has one target per wire that an operation below it acts on
TargetsAggregated(ops) ==
    \A n \in Nodes(ops) :
        IsSome(n.children) =>
            /\ WiresOf(n.targets) = QIds(Get(n.children))
            /\ Cardinality(WiresOf(n.targets)) = Len(n.targets)

(***************************************************************************)
(* C13.  Composite-targets invariant: after every committed gesture (add   *)
(* from the toolbox, move, copy, delete) the targets of every group of the *)
(* tree are the deduplicated union of the wires referenced as target or    *)
(* control by its descendants at any depth.  The code does not keep it.    *)
(***************************************************************************)
C13_TargetsAggregated == Committed => TargetsAggregated(operations)

\* every wire of every register, at every depth, is a wire of the page
WiresInRange(ops) == \A q \in QIds(ops) : 0 <= q /\ q < Len(wireData)

(***************************************************************************)
(* C14.  Wire-range invariant: the initial tree and the toolbox operations *)
(* have every qId in [0, wireCount); after any sequence of gestures every  *)
(* qId, in the targets and the controls of every operation at every depth, *)
(* is in [0, wireCount).                                                   *)
(***************************************************************************)
C14_WireRange == WiresInRange(operations)

\* an operation dropped some wires down reaches past the last wire, and the
\* register that passed it comes back at the top
C14_Witness ==
    /\ Dropzone
    /\ event.call = "moveX"
    /\ event.ret = "operation"
    /\ HasUid(operations, event.uid)
    /\ ArmedOperation.kind = "operation"
    /\ HasUid(event.pre, ArmedOperation.uid)
    /\ LET n == Len(wireData)
           d == ParseInt(event.targetWire) - ParseInt(ArmedWire)
           before == WiresOf(RegistersOf(NodeByUid(event.pre, ArmedOperation.uid)))
           after == WiresOf(RegistersOf(NodeByUid(operations, event.uid)))
       IN  /\ d > 0
           /\ \E q \in before : q + d >= n /\ (q + d) - n \in after

\* the operations that carry the removed marker
Marked(ops) == {n \in Nodes(ops) : IsRemoved(n)}

\* the array the source was in, before the call and after it
SourceArrayBefore == ArrayOf(last.pre, SourceOwner)
SourceArrayAfter == ArrayOf(operations, SourceOwner)

(***************************************************************************)
(* C15.  The deletion marker is transient: when no operation carries the   *)
(* removed marker before a call of _moveX or _removeOperation that does    *)
(* its work, at the end of the call exactly one operation, the marked      *)
(* original, has been spliced out of its parent array, and no operation    *)
(* that remains in the tree, the inserted clone included, carries the      *)
(* marker.                                                                 *)
(***************************************************************************)
C15_MarkerTransient ==
    (pc = "returned" /\ (Moved \/ Removed) /\ Marked(last.pre) = {}) =>
        /\ Marked(operations) = {}
        /\ ~HasUid(operations, SourceUid)
        /\ Uids(last.pre) \ Uids(<<SourceBefore>>) \subseteq Uids(operations)
        /\ SourceOwner = ROOT \/ HasUid(operations, SourceOwner)
        /\ LET clone == IF Moved /\ TargetOwner = SourceOwner THEN 1 ELSE 0
           IN  /\ Len(SourceArrayAfter) = Len(SourceArrayBefore) + clone - 1
               /\ {SourceArrayAfter[i].uid : i \in 1..Len(SourceArrayAfter)} \ {CloneUid}
                  = {SourceArrayBefore[i].uid : i \in 1..Len(SourceArrayBefore)}
                       \ {SourceUid}

\* the clone is put in front of the original in the same array, and it is the
\* original that leaves
C15_Witness ==
    /\ pc = "returned"
    /\ Moved
    /\ TargetOwner = SourceOwner
    /\ TargetIndex < SourceIndex
    /\ HasUid(operations, CloneUid)
    /\ ~HasUid(operations, SourceUid)
    /\ Marked(operations) = {}

\* an operation of the tree is selected and dropped, without the control key,
\* on the dropzone that has its location
SameSlotDrop ==
    /\ Dropzone
    /\ event.call = "moveX"
    /\ ArmedOperation.kind = "operation"
    /\ event.targetLoc = ArmedLocation

RECURSIVE Shape(_, _)
ShapeOf(n, u) ==
    [n EXCEPT !.uid = 0,
              !.targets = IF n.uid = u THEN <<>>
                          ELSE [i \in 1..Len(@) |-> [@[i] EXCEPT !.cId = None]],
              !.controls = IF IsSome(@)
                           THEN Some([i \in 1..Len(Get(@)) |->
                                         [Get(@)[i] EXCEPT !.cId = None]])
                           ELSE None,
              !.children = IF IsSome(@) THEN Some(Shape(Get(@), u)) ELSE None]
Shape(arr, u) == [i \in 1..Len(arr) |-> ShapeOf(arr[i], u)]

\* the operation whose targets the drop computes again, if there is one
ArmedParent == _findParentOperation(event.pre, ArmedLocation).uid

C17_RedrawDiscipline ==
    (Dropzone \/ DeleteKey) =>
        /\ event.renders <= 1
        /\ event.renders = 1 => TreeChanged

NothingSelected ==
    /\ selectedOperation = Result("null", 0)
    /\ selectedLocation = NullLocation
    /\ selectedWire = NullLocation

(***************************************************************************)
(* C18.  The selection is cleared after every gesture: after a mouseup on  *)
(* a dropzone (whatever the drop did), after a mouseup outside every       *)
(* dropzone and after a Delete keypress, selectedOperation,                *)
(* selectedLocation and selectedWire are all null.  The code does not      *)
(* clear them all.                                                         *)
(***************************************************************************)
C18_SelectionCleared ==
    event.name \in {"dropzoneMouseUp", "documentMouseUp", "deleteKeyDown"} => NothingSelected

(***************************************************************************)
(* C19.  Delete returns to idle: after a Delete keypress that removed the  *)
(* selected operation, a further Delete keypress or a drop, with no        *)
(* mousedown on a gate or toolbox element in between, leaves the tree      *)
(* unchanged.  The code keeps the selection, and the next keypress         *)
(* removes again.                                                          *)
(***************************************************************************)
C19_DeleteReturnsToIdle ==
    [][ ( /\ DeleteKey
          /\ event.call = "remove"
          /\ event'.name \in {"deleteKeyDown", "dropzoneMouseUp"} )
        => operations' = operations ]_vars

(***************************************************************************)
(* C20.  Atomic commit or abort: every drop either commits (the circuit    *)
(* manipulation call returned the new operation, and no operation of the   *)
(* tree carries the removed marker) or leaves the tree identical to the    *)
(* tree before it and does not call renderFn; a drop while nothing is      *)
(* selected, and a drop whose call returns null or undefined, change       *)
(* nothing in the tree and do not call renderFn.  The listener breaks it:  *)
(* after a committed move or copy it looks up the parent of the selected   *)
(* location in the changed tree, and that lookup can throw.                *)
(***************************************************************************)
C20_CommitOrAbort ==
    Dropzone =>
        /\ Marked(operations) = {}
        /\ event.ret = "operation" \/ (operations = event.pre /\ event.renders = 0)
        /\ IsNullish(ArmedOperation) => operations = event.pre /\ event.renders = 0
        /\ event.ret \in {"null", "undefined"} =>
              operations = event.pre /\ event.renders = 0

\* the operation reached from the root by the sibling indexes p
RECURSIVE NodeAt(_, _)
NodeAt(arr, p) ==
    IF Len(p) = 1 THEN arr[p[1] + 1]
    ELSE NodeAt(Get(arr[p[1] + 1].children), Tail(p))

\* _findOperation has been called with the path of an operation of the tree
ResolvedOwnPath ==
    /\ Called("findOperation")
    /\ pc = "returned"
    /\ \E p \in GatePaths(last.pre) : last.src = Encode(p)

(***************************************************************************)
(* C21.  Path round trip: in every tree, for every operation n, the        *)
(* location made of the sibling indexes from the root down to n resolves,  *)
(* by _findOperation on the same tree, to n itself (the same object, not a *)
(* copy); the paths of the tree reach every operation of it.               *)
(***************************************************************************)
C21_PathRoundTrip ==
    /\ \A p \in GatePaths(operations) :
          _findOperation(operations, Encode(p))
              = Result("operation", NodeAt(operations, p).uid)
    /\ {NodeAt(operations, p).uid : p \in GatePaths(operations)} = Uids(operations)
    /\ ResolvedOwnPath =>
          \A p \in GatePaths(last.pre) :
              last.src = Encode(p) =>
                  /\ last.ret = "operation"
                  /\ last.uid = NodeAt(last.pre, p).uid
                  /\ operations = last.pre

\* the second child of a group, resolved through the group
C21_Witness ==
    /\ ResolvedOwnPath
    /\ last.src = <<"0", "-", "1">>
    /\ last.ret = "operation"
    /\ last.uid = Get(last.pre[1].children)[2].uid

\* bit i of a non-negative number
BitOf(number, i) == (number \div (2 ^ i)) % 2

Converted == conversion.called

(***************************************************************************)
(* C22.  IntAsBoolArray(number, bits) returns exactly when bits >= 0,      *)
(* number >= 0 and number <= 2^bits - 1, and fails otherwise; when it      *)
(* returns, the array has exactly bits elements and element i is true iff  *)
(* bit i of number is 1 (little-endian).                                   *)
(***************************************************************************)
C22_IntAsBoolArray ==
    Converted =>
        LET number == conversion.number
            bits == conversion.bits
            out == conversion.out
        IN  /\ out.failed <=> (bits < 0 \/ number < 0 \/ number > (2 ^ bits) - 1)
            /\ ~out.failed =>
                  /\ Len(out.value) = bits
                  /\ \A i \in 0..(bits - 1) :
                        out.value[i + 1] <=> BitOf(number, i) = 1

\* 6 on 4 bits is [false, true, true, false]
C22_Witness ==
    /\ Converted
    /\ conversion.number = 6
    /\ conversion.bits = 4
    /\ conversion.out = Value(<<FALSE, TRUE, TRUE, FALSE>>)

(***************************************************************************)
(* C23.  Classical-register remapping: _offsetRecursively replaces the cId *)
(* of every register that has one, in the targets and the controls of the  *)
(* operation and of every descendant, by (cId + offset) mod wireCount      *)
(* computed from the register's own previous cId, a previous cId of 0      *)
(* included.  The code does not: it leaves a cId of 0 as it is, and it     *)
(* computes the cId of a control from the control's qId.                   *)
(***************************************************************************)
C23_AuxWireRemapped ==
    OffsetApplied =>
        /\ Len(RegistersAfter) = Len(RegistersBefore)
        /\ \A i \in 1..Len(RegistersBefore) :
              IsSome(RegistersBefore[i].cId) =>
                  RegistersAfter[i].cId
                      = Some((Get(RegistersBefore[i].cId) + shift.offset) % Len(wireData))

\* the operation the vertical step was applied to, before the step
ShiftedBefore == NodeByUid(shift.pre, last.uid)

\* the measure operations below it
MeasuresBelow ==
    IF IsSome(ShiftedBefore.children)
    THEN {m \in Nodes(Get(ShiftedBefore.children)) : m.gate = "measure"}
    ELSE {}

\* the targets and the controls of one operation
OwnRegisters(n) == n.targets \o (IF IsSome(n.controls) THEN Get(n.controls) ELSE <<>>)

(***************************************************************************)
(* C24.  The measure exemption is top-level only: when the vertical step   *)
(* of a move or of an add is applied to an operation that is not a measure *)
(* operation, every measure operation among its descendants has the wire   *)
(* of each of its registers replaced by (qId + offset) mod wireCount, like *)
(* every other descendant.                                                 *)
(***************************************************************************)
C24_MeasureBelowIsShifted ==
    (WireShifted /\ ShiftedBefore.gate # "measure") =>
        \A m \in MeasuresBelow :
            /\ HasUid(operations, m.uid)
            /\ LET before == OwnRegisters(m)
                   after == OwnRegisters(NodeByUid(operations, m.uid))
               IN  /\ Len(after) = Len(before)
                   /\ \A i \in 1..Len(before) :
                         after[i].qId = (before[i].qId + WireOffset) % Len(wireData)

\* a group holding a measure on the last wire, moved one wire down: the
\* measure comes back on the first wire
C24_Witness ==
    /\ WireShifted
    /\ shift.op = "moveY"
    /\ WireOffset = 1
    /\ ShiftedBefore.gate = "Read"
    /\ \E m \in MeasuresBelow :
          /\ OwnRegisters(m)[1].qId = Len(wireData) - 1
          /\ OwnRegisters(NodeByUid(operations, m.uid))[1].qId = 0

\* the last event was a mousedown on a toolbox element
ToolboxArmed == event.name = "toolboxMouseDown"

\* the drop found a toolbox operation selected
DropOfTemplate == Dropzone /\ ArmedOperation.kind = "template"

(***************************************************************************)
(* C25.  Arming from the toolbox carries no location: after any sequence   *)
(* of earlier events, a mousedown on a toolbox element leaves              *)
(* selectedLocation null, and the next mouseup on a dropzone adds: it      *)
(* inserts a clone of the toolbox operation at the target and moves or     *)
(* copies no operation of the tree.  The code keeps the location of an     *)
(* earlier mousedown on a gate, and the drop then moves or copies.         *)
(***************************************************************************)
C25_ToolboxArmsWithoutLocation ==
    /\ ToolboxArmed => selectedLocation = NullLocation
    /\ DropOfTemplate =>
          /\ event.call = "add"
          /\ event.ret = "operation"
          /\ Size(operations) = Size(event.pre) + Size(<<Toolbox[ArmedOperation.uid]>>)
          /\ Uids(event.pre) \subseteq Uids(operations)

\* the drop found an operation of the tree selected, at the location it is at
ArmedResolves ==
    /\ Dropzone
    /\ ArmedOperation.kind = "operation"
    /\ ArmedWire # NullLocation
    /\ _findOperation(event.pre, ArmedLocation) = ArmedOperation

\* the tree holds an operation object it did not hold before the drop
CloneInserted == Uids(operations) \ Uids(event.pre) # {}

(***************************************************************************)
(* C26.  Copy versus move: for a drop of a selected operation of the tree  *)
(* on a dropzone, ctrlKey of the mouseup alone decides: with it the        *)
(* original stays in the tree and a clone is inserted (_copyX), without it *)
(* the original is removed and a clone is inserted (_moveX).  The call is  *)
(* chosen so, but a move into the subtree of the original leaves no clone  *)
(* in the tree, and a move to the location of the original removes and     *)
(* inserts nothing.                                                        *)
(***************************************************************************)
C26_ModifierDecides ==
    ArmedResolves =>
        /\ event.call = IF event.ctrlKey THEN "copyX" ELSE "moveX"
        /\ event.ctrlKey => HasUid(operations, ArmedOperation.uid) /\ CloneInserted
        /\ ~event.ctrlKey => ~HasUid(operations, ArmedOperation.uid) /\ CloneInserted

\* a move or a copy returned an operation that is in the tree
DroppedInTree ==
    /\ Dropzone
    /\ event.call \in {"moveX", "copyX"}
    /\ event.ret = "operation"
    /\ HasUid(operations, event.uid)

DroppedNode == NodeByUid(operations, event.uid)

\* the groups of the tree that hold the operation at address u, at any depth
ContainersOf(ops, u) ==
    {n \in Nodes(ops) : IsSome(n.children) /\ u \in Uids(Get(n.children))}

\* the group whose children array holds the operation at address u
ParentsOf(ops, u) ==
    {n \in Nodes(ops) :
        IsSome(n.children) /\ \E i \in 1..Len(Get(n.children)) : Get(n.children)[i].uid = u}

(***************************************************************************)
(* C27.  Container recomputation on drop: after a move or a copy that      *)
(* returned an operation, the group the dropped operation is a child of    *)
(* has targets equal to _targets of that group on the tree after the drop; *)
(* and the only operations whose targets the drop rewrites are containers  *)
(* of the dropped operation (the dropped operation and its descendants     *)
(* change by their wire shift only).  The code recomputes the operation    *)
(* found at the parent of the source location in the changed tree.         *)
(***************************************************************************)
C27_ContainerRecomputed ==
    DroppedInTree =>
        /\ \A parent \in ParentsOf(operations, event.uid) :
              parent.targets = _targets(parent)
        /\ \A n \in Nodes(operations) \ Nodes(<<DroppedNode>>) :
              (HasUid(event.pre, n.uid) /\ n.targets # NodeByUid(event.pre, n.uid).targets)
                  => n \in ContainersOf(operations, event.uid)
        /\ LET source == NodeByUid(event.pre, _findOperation(event.pre, ArmedLocation).uid)
           IN  StripNode(DroppedNode)
                   = StripNode(_moveY(ArmedWire, event.targetWire, source, Len(wireData)))

\* the operations without a children array
Leaves(ops) == {n \in Nodes(ops) : ~IsSome(n.children)}

\* the operations the vertical step of the drop acts on
DroppedSubtree == IF DroppedInTree THEN Nodes(<<DroppedNode>>) ELSE {}

(***************************************************************************)
(* C28.  Leaves keep their targets: no event replaces the targets of an    *)
(* operation without children by the result of _targets; after a move or   *)
(* a copy every leaf other than the dropped operation has the targets it   *)
(* had before, and the dropped operation, when a leaf, has the targets of  *)
(* the source shifted to the target wire.  The code assigns _targets,      *)
(* the empty array, to a leaf that the source location's parent path       *)
(* reaches in the changed tree.                                            *)
(***************************************************************************)
C28_LeavesKeepTargets ==
    /\ \A n \in Leaves(operations) \ DroppedSubtree :
          HasUid(event.pre, n.uid) => n.targets = NodeByUid(event.pre, n.uid).targets
    /\ (DroppedInTree /\ DroppedNode \in Leaves(operations)) =>
          LET source == NodeByUid(event.pre, _findOperation(event.pre, ArmedLocation).uid)
          IN  DroppedNode.targets
                  = _moveY(ArmedWire, event.targetWire, source, Len(wireData)).targets

\* _addOperation has returned the operation it inserted
AddedX == pc = "returned" /\ last.op = "add" /\ last.ret = "operation"

\* the operation objects an array holds, in order
Elements(arr) == [i \in 1..Len(arr) |-> arr[i].uid]

\* the arrays of a tree: the root array and the children array of every group
Owners(ops) == {ROOT} \cup {n.uid : n \in {m \in Nodes(ops) : IsSome(m.children)}}

\* an operation without its children array
Fields(n) == [n EXCEPT !.children = None]

(***************************************************************************)
(* C29.  Add splices at the resolved index: when the target location       *)
(* resolves to the parent array A and the index i, _addOperation turns A   *)
(* into A[0..i), a deep clone of the source operation, A[i..] (an index    *)
(* past the end of A appends), changes no other array of the tree, and     *)
(* returns the inserted clone.                                             *)
(***************************************************************************)
C29_AddSplicesAtIndex ==
    AddedX =>
        LET A == ArrayOf(last.pre, TargetOwner)
            i == TargetIndex
            after == ArrayOf(operations, TargetOwner)
            clone == after[i + 1]
        IN  /\ Len(after) = Len(A) + 1
            /\ Elements(after)
                   = Elements(SubSeq(A, 1, i)) \o <<last.uid>> \o Elements(SubSeq(A, i + 1, Len(A)))
            /\ clone.uid = last.uid
            /\ StripNode(clone) = StripNode(Toolbox[last.tmpl])
            /\ Uids(<<clone>>) \cap Uids(last.pre) = {}
            /\ Cardinality(Uids(<<clone>>)) = Size(<<Toolbox[last.tmpl]>>)
            /\ \A owner \in Owners(last.pre) \ {TargetOwner} :
                  /\ HasUid(operations, owner) \/ owner = ROOT
                  /\ Elements(ArrayOf(operations, owner)) = Elements(ArrayOf(last.pre, owner))
            /\ \A n \in Nodes(last.pre) :
                  /\ HasUid(operations, n.uid)
                  /\ Fields(NodeByUid(operations, n.uid)) = Fields(n)

\* an operation added at index 0 of the children of a group goes before
\* the child that was there
C29_Witness ==
    /\ AddedX
    /\ last.dst = <<"1", "-", "0">>
    /\ TargetOwner # ROOT
    /\ Len(ArrayOf(last.pre, TargetOwner)) = 1
    /\ Elements(ArrayOf(operations, TargetOwner))
           = <<last.uid>> \o Elements(ArrayOf(last.pre, TargetOwner))

\* the elements of an array other than the operation at address u
Without(arr, u) == SelectSeq(Elements(arr), LAMBDA e : e # u)

\* the arrays that are in the tree before the move and after it
KeptOwners ==
    {owner \in Owners(last.pre) : owner = ROOT \/ HasUid(operations, owner)}

(***************************************************************************)
(* C30.  _moveX removes exactly the original source: whether the clone was *)
(* inserted before or after the source, in the same array or in another,   *)
(* the element spliced out is the original source and no other; the        *)
(* operations that leave the tree are the source and its descendants, and  *)
(* in every array the other operations are in the same order before and    *)
(* after the move.                                                         *)
(***************************************************************************)
C30_MoveRemovesExactlySource ==
    (Moved /\ pc = "returned") =>
        /\ ~HasUid(operations, SourceUid)
        /\ Uids(last.pre) \ Uids(operations) = Uids(<<SourceBefore>>)
        /\ KeptOwners = Owners(last.pre) \ Uids(<<SourceBefore>>)
        /\ \A owner \in KeptOwners :
              Without(ArrayOf(operations, owner), CloneUid)
                  = Without(ArrayOf(last.pre, owner), SourceUid)

\* the clone goes in before the source in the array of the source, which
\* moves the source one index up before it is spliced out
C30_Witness ==
    /\ Moved
    /\ pc = "returned"
    /\ SourceOwner = TargetOwner
    /\ TargetIndex < SourceIndex
    /\ Len(SourceArrayBefore) = 3
    /\ Elements(SourceArrayAfter)
           = <<CloneUid>> \o Without(SourceArrayBefore, SourceUid)

\* an accessor has been called with a location of two indexes whose first
\* index is that of a top-level operation without children
WalkedThroughLeaf ==
    /\ pc = "returned"
    /\ last.op \in {"findParentArray", "findOperation"}
    /\ Len(_indexes(last.src)) = 2
    /\ InRange(last.pre, _indexes(last.src)[1])
    /\ ~IsSome(last.pre[_indexes(last.src)[1] + 1].children)

\* the paths of the operations without children
LeafPaths(ops) == {p \in GatePaths(ops) : ~IsSome(NodeAt(ops, p).children)}

(***************************************************************************)
(* C31.  Accessor fallback: while walking a location, when the operation   *)
(* at an intermediate index exists but has no children, _findParentArray   *)
(* stays in the current array for the next index; the location "0-1" over  *)
(* a root whose element 0 is a leaf resolves to element 1 of the root      *)
(* array.                                                                  *)
(***************************************************************************)
C31_AccessorFallback ==
    /\ \A p \in LeafPaths(operations) : \A j \in 0..MaxIndex :
          _findParentArray(operations, Encode(p \o <<j>>))
              = _findParentArray(operations, Encode(p))
    /\ WalkedThroughLeaf =>
          LET j == _indexes(last.src)[2]
          IN  IF last.op = "findParentArray"
              THEN last.ret = "array" /\ last.uid = ROOT
              ELSE IF InRange(last.pre, j)
                   THEN last.ret = "operation" /\ last.uid = last.pre[j + 1].uid
                   ELSE last.ret = "undefined"

\* "0-1" over [H, X]: H is a leaf, and the call returns X
C31_Witness ==
    /\ WalkedThroughLeaf
    /\ last.op = "findOperation"
    /\ last.src = <<"0", "-", "1">>
    /\ Strip(last.pre) = <<GateH, GateX>>
    /\ last.ret = "operation"
    /\ last.uid = last.pre[2].uid

\* the qIds of the registers collected from the operations of arr when the
\* children of an operation are visited only if it has a controls array,
\* an empty one counting or not
RECURSIVE Gathered(_, _)
Gathered(arr, emptyCounts) ==
    IF arr = <<>> THEN {}
    ELSE LET child == Head(arr)
             descends == /\ IsSome(child.controls)
                         /\ (emptyCounts \/ Get(child.controls) # <<>>)
         IN  {child.targets[i].qId : i \in 1..Len(child.targets)}
             \cup (IF IsSome(child.controls)
                   THEN {Get(child.controls)[i].qId : i \in 1..Len(Get(child.controls))}
                   ELSE {})
             \cup (IF descends /\ IsSome(child.children)
                   THEN Gathered(Get(child.children), emptyCounts)
                   ELSE {})
             \cup Gathered(Tail(arr), emptyCounts)

\* the qIds of the targets _targets gave the group
AggregatedQIds ==
    LET result == NodeByUid(operations, last.uid).targets
    IN  {result[i].qId : i \in 1..Len(result)}

\* the children of the group _targets was applied to
AggregatedChildren == Get(NodeByUid(shift.pre, last.uid).children)

(***************************************************************************)
(* C32.  Aggregator recursion policy, as found in the code: _targets       *)
(* descends into the children of a child of the group exactly when that    *)
(* child has a controls array, an empty array included; a child without    *)
(* the controls property contributes its own targets only and none of the  *)
(* registers of its descendants.                                           *)
(***************************************************************************)
C32_RecursionPolicy ==
    Aggregated => AggregatedQIds = Gathered(AggregatedChildren, TRUE)

\* C32 as stated: a child with an empty controls array contributes its own
\* targets only
C32_Original ==
    Aggregated => AggregatedQIds = Gathered(AggregatedChildren, FALSE)

\* Top{Raw{H}, Nil{X}}: the H on wire 0 below Raw is not collected, the X on
\* wire 1 below Nil, whose controls array is empty, is
C32_Witness ==
    /\ Aggregated
    /\ \E i \in 1..Len(AggregatedChildren) :
          /\ AggregatedChildren[i].controls = Some(<<>>)
          /\ IsSome(AggregatedChildren[i].children)
          /\ Gathered(Get(AggregatedChildren[i].children), TRUE) = {1}
    /\ \E i \in 1..Len(AggregatedChildren) :
          /\ ~IsSome(AggregatedChildren[i].controls)
          /\ IsSome(AggregatedChildren[i].children)
          /\ Gathered(Get(AggregatedChildren[i].children), TRUE) = {0}
    /\ AggregatedQIds = {2, 1}

\* a child with a control has its children visited
C32_WitnessControlled ==
    /\ Aggregated
    /\ \E i \in 1..Len(AggregatedChildren) :
          /\ IsSome(AggregatedChildren[i].controls)
          /\ Get(AggregatedChildren[i].controls) # <<>>
          /\ IsSome(AggregatedChildren[i].children)
    /\ AggregatedQIds = {1, 2, 0}

\* the targets of every operation of arr, at every depth, are on pairwise
\* distinct wires
DistinctTargets(arr) ==
    \A n \in Nodes(arr) :
        \A i, j \in 1..Len(n.targets) : i # j => n.targets[i].qId # n.targets[j].qId

(***************************************************************************)
(* C33.  Targets stay unique: the targets of every operation of the        *)
(* initial tree and of every toolbox operation are on pairwise distinct    *)
(* wires, and after any sequence of gestures the targets of every          *)
(* operation of the tree are still on pairwise distinct wires.             *)
(***************************************************************************)
C33_TargetsStayUnique ==
    DistinctTargets(Toolbox) => DistinctTargets(operations)

\* an operation with two targets has been moved down and one of its targets
\* has wrapped round to the top
C33_Witness ==
    /\ Dropzone
    /\ event.call = "moveX"
    /\ event.ret = "operation"
    /\ HasUid(operations, event.uid)
    /\ ArmedOperation.kind = "operation"
    /\ HasUid(event.pre, ArmedOperation.uid)
    /\ DistinctTargets(Toolbox)
    /\ LET n == Len(wireData)
           d == ParseInt(event.targetWire) - ParseInt(ArmedWire)
           before == NodeByUid(event.pre, ArmedOperation.uid).targets
           after == NodeByUid(operations, event.uid).targets
       IN  /\ d > 0
           /\ Len(before) >= 2
           /\ Len(after) = Len(before)
           /\ \E i \in 1..Len(before) :
                 before[i].qId + d >= n /\ after[i].qId = (before[i].qId + d) - n
           /\ \E i \in 1..Len(before) :
                 before[i].qId + d < n /\ after[i].qId = before[i].qId + d

\* the drop added a clone of a toolbox operation
AddedFromToolbox ==
    /\ Dropzone
    /\ event.call = "add"
    /\ event.ret = "operation"
    /\ ArmedOperation.kind = "template"
    /\ HasUid(operations, event.uid)

\* what an add of the toolbox operation type on targetWire inserts when the
\* toolbox is as it was when the page was loaded
FirstAdd(type, targetWire) == _addY(targetWire, Toolbox[type], Len(wireData))

(***************************************************************************)
(* C34.  The toolbox operations are never changed: after any sequence of   *)
(* adds from the toolbox (the clone is inserted, then shifted to the       *)
(* target wire) every operation of defaultGateDictionary is structurally   *)
(* equal to its initial value, so that an add of a given type on a given   *)
(* wire inserts the same value whatever was added before it.               *)
(***************************************************************************)
C34_ToolboxUnchanged ==
    /\ Strip(defaultGateDictionary) = Toolbox
    /\ AddedFromToolbox =>
          StripNode(NodeByUid(operations, event.uid))
              = FirstAdd(ArmedOperation.uid, event.targetWire)

\* H has been added twice on wire 1: the two clones are two objects of
\* equal value, and the toolbox still holds H on wire 0
C34_Witness ==
    /\ AddedFromToolbox
    /\ clock = 4
    /\ Toolbox[ArmedOperation.uid] = GateH
    /\ event.targetWire = <<"1">>
    /\ HasUid(event.pre, event.uid - 1)
    /\ ~HasUid(event.pre, event.uid)
    /\ Size(operations) = nextUid - 1
    /\ Size(event.pre) = Size(operations) - 1
    /\ StripNode(NodeByUid(operations, event.uid - 1))
           = StripNode(NodeByUid(operations, event.uid))
    /\ NodeByUid(operations, event.uid).targets = <<Reg(1)>>
    /\ defaultGateDictionary[ArmedOperation.uid].targets = <<Reg(0)>>

\* the operation an offset was applied to, as the offset left it
ShiftedAfter == NodeByUid(operations, last.uid)

\* an offset has been applied to an operation that is not a measure operation
OffsetAppliedToGate == OffsetApplied /\ ShiftedBefore.gate # "measure"

\* the second shift: _offsetRecursively applied to what the first one left
ShiftedAgain(wireOffset) == _offsetRecursively(ShiftedAfter, wireOffset, Len(wireData))

(***************************************************************************)
(* C35.  Wire shift round trip: for every operation that is not a measure  *)
(* operation, every wire count and every offset, _offsetRecursively with   *)
(* the offset and then with its opposite restores every register of the    *)
(* operation and of its descendants, qId and cId, in targets and in         *)
(* controls; more generally a shift by a and then by b equals a shift by    *)
(* a + b.  The code does not, for the registers that carry a cId.           *)
(***************************************************************************)
C35_ShiftRoundTrip ==
    OffsetAppliedToGate =>
        /\ RegistersOf(ShiftedAgain(0 - shift.offset)) = RegistersBefore
        /\ \A b \in Offsets :
              RegistersOf(ShiftedAgain(b))
                  = RegistersOf(_offsetRecursively(ShiftedBefore, shift.offset + b,
                                                   Len(wireData)))

\* the qId of a register
QIdsOf(registers) == [i \in 1..Len(registers) |-> registers[i].qId]

\* what holds of the code: the round trip and the composition of the qIds
C35_WiresRoundTrip ==
    OffsetAppliedToGate =>
        /\ QIdsOf(RegistersOf(ShiftedAgain(0 - shift.offset))) = QIdsOf(RegistersBefore)
        /\ \A b \in Offsets :
              QIdsOf(RegistersOf(ShiftedAgain(b)))
                  = QIdsOf(RegistersOf(_offsetRecursively(ShiftedBefore, shift.offset + b,
                                                          Len(wireData))))

\* the last event was a mousedown on a gate element whose data-expanded is true
ExpandedMouseDown == event.name = "gateMouseDown" /\ event.expanded

(***************************************************************************)
(* C37.  Expanded groups cannot be armed: a mousedown on a gate element    *)
(* whose data-expanded attribute is true leaves selectedLocation and       *)
(* selectedOperation exactly as they were before the event, so it never    *)
(* arms that group for a move, a copy or a delete.                         *)
(***************************************************************************)
C37_ExpandedNotArmed ==
    ExpandedMouseDown =>
        /\ selectedLocation = ArmedLocation
        /\ selectedOperation = ArmedOperation

\* an operation was armed at another location when the mousedown came, and
\* it is still the armed one
C37_Witness ==
    /\ ExpandedMouseDown
    /\ ArmedLocation # NullLocation
    /\ ArmedLocation # event.targetLoc
    /\ ArmedOperation.kind = "operation"
    /\ selectedLocation = ArmedLocation
    /\ selectedOperation = ArmedOperation
    /\ _findOperation(operations, event.targetLoc).kind = "operation"
    /\ _findOperation(operations, event.targetLoc).uid # selectedOperation.uid

\* the results of BoolArrayAsInt that the calls made so far have left
IntResults ==
    (IF conversion.kind = "number" /\ conversion.steps >= 2 THEN {conversion.int} ELSE {})
    \cup (IF conversion.kind = "array" /\ conversion.steps >= 1 THEN {conversion.int} ELSE {})
    \cup (IF conversion.kind = "array" /\ conversion.steps >= 3 THEN {conversion.again} ELSE {})

(***************************************************************************)
(* C38.  Bit-array round trip: for every bits with 0 <= bits < 64 and      *)
(* every number with 0 <= number < 2^bits,                                 *)
(* BoolArrayAsInt(IntAsBoolArray(number, bits)) = number; for every array  *)
(* a of Bool of length below 64,                                           *)
(* IntAsBoolArray(BoolArrayAsInt(a), Length(a)) = a; and BoolArrayAsInt    *)
(* returns non-negative integers only.                                     *)
(***************************************************************************)
C38_BitArrayRoundTrip ==
    /\ (/\ conversion.kind = "number"
        /\ conversion.steps >= 1
        /\ 0 <= conversion.bits
        /\ conversion.bits < IntBits
        /\ 0 <= conversion.number
        /\ conversion.number < 2 ^ conversion.bits)
       => /\ ~conversion.out.failed
          /\ conversion.steps >= 2 => conversion.int = Value(Word(conversion.number))
    /\ (/\ conversion.kind = "array"
        /\ conversion.steps >= 1
        /\ Len(conversion.array) < IntBits)
       => /\ ~conversion.int.failed
          /\ conversion.steps >= 2 => conversion.back = Value(conversion.array)
          /\ conversion.steps >= 3 => conversion.again = conversion.int
    /\ \A r \in IntResults : ~r.failed => ~IsNegative(r.value)

\* 63 elements, all true: the largest Int, and the array comes back
C38_Witness ==
    /\ conversion.kind = "array"
    /\ conversion.steps = 3
    /\ Len(conversion.array) = IntBits - 1
    /\ \A i \in 1..Len(conversion.array) : conversion.array[i]
    /\ conversion.int = Value(0..(IntBits - 2))
    /\ conversion.back = Value(conversion.array)
    /\ conversion.again = conversion.int

\* 5 on 3 bits is [true, false, true], which is 5
C38_WitnessNumber ==
    /\ conversion.kind = "number"
    /\ conversion.steps = 2
    /\ conversion.number = 5
    /\ conversion.bits = 3
    /\ conversion.out = Value(<<TRUE, FALSE, TRUE>>)
    /\ conversion.int = Value({0, 2})

\* the Delete key has been pressed after extensionEvents was invoked again
KeyPressedAfterRebind == event.name = "deleteKeyDown" /\ bindings # <<>>

(***************************************************************************)
(* C36.  One keypress, at most one removal: when extensionEvents has been  *)
(* invoked more than once on the same circuit, one keydown of the Delete   *)
(* key removes at most one operation from the tree, and the selection of   *)
(* an object constructed by an earlier invocation never causes a change    *)
(* of the tree.  The code runs the keydown listener of every object.       *)
(***************************************************************************)
C36_OneKeypressOneRemoval ==
    KeyPressedAfterRebind =>
        /\ Len(removed) <= 1
        /\ \A i \in 1..Len(removed) : removed[i].binding = Len(bindings) + 1

\* the selection of the earlier object alone removes an operation
C36_EarlierBindingRemoves ==
    /\ KeyPressedAfterRebind
    /\ selectedLocation = NullLocation
    /\ Len(removed) = 1
    /\ removed[1].binding = 1

\* one keydown removes two operations, one for each object
C36_TwoRemovals ==
    /\ KeyPressedAfterRebind
    /\ Len(removed) = 2
    /\ removed[1].binding = 1
    /\ removed[2].binding = 2
    /\ removed[1].uid # removed[2].uid
    /\ ~HasUid(operations, removed[1].uid)
    /\ ~HasUid(operations, removed[2].uid)

====
